---- MODULE Spec2Model ----
(***************************************************************************)
(* Quiz Session Engine of the certification practice application.          *)
(*                                                                         *)
(* The App component renders one tab at a time (activeTab); the            *)
(* specifications are:                                                     *)
(*   Spec       the MockTest component (timed mock exam)                   *)
(*   SpecStudy  the StudyMode component (paginated study, persisted on the *)
(*              server) and the PracticeMode component (paginated, local)  *)
(*   SpecTabs   any one of the three tabs                                  *)
(*   SpecScore  the scoring rules of the four modes as pure functions      *)
(*   SpecFair   Spec with save requests that settle (weak fairness)        *)
(*   SpecShuffle     one call of shuffleArray / shuffleQuestions           *)
(*   SpecTimeLimit   one call of calculateTimeLimit                        *)
(*   SpecStudyStore  the server's POST /progress/study                     *)
(*   SpecMockStore   the server's POST /progress/mock-test                 *)
(*                                                                         *)
(* React is modelled at the granularity of one committed render: an action *)
(* is one event handler (or one timer callback, or one promise             *)
(* settlement) together with the re-render it causes and the effects of    *)
(* that render (cleanup of the previous effect, then the effect body).     *)
(* JavaScript arrays are 0-based: indexes into testQuestions, testAnswers  *)
(* and shuffledChoicesMap keep the source's 0-based values, TLA+ sequences *)
(* are read at index + 1.                                                  *)
(***************************************************************************)
EXTENDS Integers, Sequences, FiniteSets, TLC

(***************************************************************************)
(* Bounds of the model.                                                    *)
(***************************************************************************)
\* largest value typed into the question-count input
MaxQuestionCount == 3
\* number of initializeTest runs (session instances) that are explored
MaxSessions == 2
\* the seconds before expiry in which single timer ticks are explored
MaxWindow == 2
\* largest timer drift (whole seconds) between ticks fired and wall clock
MaxDrift == 1
\* saveStudyProgress requests that can be on their way at once
MaxInFlight == 2
\* largest page number typed into the page input
MaxPage == 3
MaxShuffleLen == 4
MaxUpdates == 1
MaxMockSaves == 2
\* longest question list whose navigation is explored
MaxNavQuestions == 21
\* largest page number requested or reached
MaxNavPage == 4
\* loadProgress calls of one mounted StudyMode
MaxLoads == 3

(***************************************************************************)
(* Strings.  A label is a one-character string; correct_answer and         *)
(* userAnswer are the concatenation of labels.                             *)
(***************************************************************************)
Labels == {"A", "B", "C"}

Min(a, b) == IF a <= b THEN a ELSE b
Max(a, b) == IF a >= b THEN a ELSE b

\* Array.prototype.join('')
RECURSIVE Join(_)
Join(seq) == IF seq = <<>> THEN "" ELSE Head(seq) \o Join(Tail(seq))

LabelSeqs == UNION {[1..n -> Labels] : n \in 0..3}

\* the strings of at most three labels, each with its one-character strings in order
SplitTable == [s \in {Join(seq) : seq \in LabelSeqs} |->
                  CHOOSE seq \in LabelSeqs : Join(seq) = s]

\* String.prototype.split('')
Split(s) == SplitTable[s]

\* Array.prototype.includes
Includes(seq, x) == \E i \in 1..Len(seq) : seq[i] = x

\* Array.prototype.filter(a => a !== x)
RECURSIVE Without(_, _)
Without(seq, x) ==
    IF seq = <<>> THEN <<>>
    ELSE IF Head(seq) = x THEN Without(Tail(seq), x)
    ELSE <<Head(seq)>> \o Without(Tail(seq), x)

\* String.prototype.trim().length > 0
NonBlank(v) == v \notin {"", " "}

(***************************************************************************)
(* The question source: validated question lists, one per test.            *)
(* choices keeps Object.entries order.                                     *)
(***************************************************************************)
Q1 == [question_id |-> "q1", correct_answer |-> "A", hasImage |-> FALSE,
       choices |-> <<[key |-> "A", value |-> "x"], [key |-> "B", value |-> "y"]>>]
Q2 == [question_id |-> "q2", correct_answer |-> "AB", hasImage |-> FALSE,
       choices |-> <<[key |-> "A", value |-> "x"], [key |-> "B", value |-> "y"],
                     [key |-> "C", value |-> " "]>>]
Q3 == [question_id |-> "q3", correct_answer |-> "B", hasImage |-> TRUE,
       choices |-> <<[key |-> "A", value |-> ""], [key |-> "B", value |-> " "]>>]

Q4 == [question_id |-> "q4", correct_answer |-> "AB", hasImage |-> FALSE,
       choices |-> <<[key |-> "A", value |-> "x"], [key |-> "B", value |-> "y"]>>]
\* an image-based question whose choices object is empty
ImageOnly(id) == [question_id |-> id, correct_answer |-> "A", hasImage |-> TRUE,
                  choices |-> <<>>]

\* the tests opened with the mock tab, and the test opened with the paginated tabs
TestIds == {"t1", "t2"}
PagedTestId == "t3"
QuestionsOf(t) ==
    CASE t = "t1" -> <<Q1, Q2>>
      [] t = "t2" -> <<Q3, Q1>>
      [] OTHER    -> <<Q1, Q4, ImageOnly("i3"), ImageOnly("i4"), ImageOnly("i5"),
                       ImageOnly("i6"), ImageOnly("i7"), ImageOnly("i8"),
                       ImageOnly("i9"), ImageOnly("i10"), Q3>>

\* the questions prop of the paginated components
PagedQuestions == QuestionsOf(PagedTestId)

(***************************************************************************)
(* Shuffle utility.                                                        *)
(***************************************************************************)
\* an exchange that loses the element at i
SwapOverwrites(s, i, j) == [s EXCEPT ![i] = s[j]]

\* [shuffled[i], shuffled[j]] = [shuffled[j], shuffled[i]]
Swap(s, i, j) == [s EXCEPT ![i] = s[j], ![j] = s[i]]

\* the loop body for i (1-based position i = source index i - 1), j ranging
\* over every value Math.floor(Math.random() * (i + 1)) can take
RECURSIVE ShuffleFrom(_, _)
ShuffleFrom(s, i) ==
    IF i <= 1 THEN {s}
    ELSE UNION {ShuffleFrom(Swap(s, i, j), i - 1) : j \in 1..i}

\* every result shuffleArray can return for array
shuffleArray(array) == ShuffleFrom(array, Len(array))

(***************************************************************************)
(* MockTest: time budget.                                                  *)
(***************************************************************************)
CeilDiv(a, b) == (a + b - 1) \div b

baseTimeMinutes == 120
baseQuestions == 65

\* a budget rounded down to the 15 seconds below
calculateTimeLimitFloors(numQuestions) ==
    LET totalSeconds == CeilDiv(baseTimeMinutes * numQuestions * 60, baseQuestions)
    IN  (totalSeconds \div 15) * 15

calculateTimeLimit(numQuestions) ==
    LET totalSeconds == CeilDiv(baseTimeMinutes * numQuestions * 60, baseQuestions)
    IN  CeilDiv(totalSeconds, 15) * 15

(***************************************************************************)
(* MockTest: state.                                                        *)
(***************************************************************************)
VARIABLES
    mounted,              \* the MockTest component is mounted
    testId,               \* prop testId (questions prop is QuestionsOf(testId))
    testQuestions,        \* sequence of Question
    currentQuestionIndex, \* 0-based cursor
    testAnswers,          \* sparse array: function index -> TestAnswer
    flaggedQuestions,     \* set of indexes
    skippedQuestions,     \* set of indexes
    timeLeft,
    isTestStarted,
    isTestCompleted,
    showResults,
    questionCount,
    shuffledChoicesMap,   \* function index -> sequence of ShuffledChoice
    isSavingResults,
    mockTestActive,       \* localStorage has the key 'mockTestActive'
    timers,               \* pending setTimeout handles, each the session that armed it
    pendingSaves,         \* saveMockTestResults promises of this component not settled
    sessionId,            \* number of initializeTest runs so far
    ticksFired,           \* timer callbacks run since the last initializeTest
    sessionSaves,         \* saveMockTestResults calls since the last initializeTest
    lastSaved             \* argument of the latest saveMockTestResults call

mockVars == <<mounted, testId, testQuestions, currentQuestionIndex, testAnswers,
              flaggedQuestions, skippedQuestions, timeLeft, isTestStarted,
              isTestCompleted, showResults, questionCount, shuffledChoicesMap,
              isSavingResults, mockTestActive, timers, pendingSaves, sessionId,
              ticksFired, sessionSaves, lastSaved>>

(***************************************************************************)
(* App, StudyMode, PracticeMode and the study records of the server:       *)
(* state.                                                                  *)
(***************************************************************************)
VARIABLES
    activeTab,            \* App: the tab whose component is rendered
    pagedMounted,         \* the StudyMode / PracticeMode component is mounted
    currentPage,          \* 1-based
    answeredQuestions,    \* set of question indexes
    selectedAnswers,      \* function question index -> sequence of labels
    shuffledChoices,      \* function question index -> sequence of ShuffledChoice
    progress,             \* StudyMode: function question_id -> StudyProgress
    isLoading,
    isSaving,
    error,
    loadPending,          \* the getStudyProgress promise of this component is not settled
    savesInFlight,        \* saveStudyProgress requests not settled
    userProgress          \* server: study rows of the user, function question_id -> row

pagedVars == <<activeTab, pagedMounted, currentPage, answeredQuestions, selectedAnswers,
               shuffledChoices, progress, isLoading, isSaving, error, loadPending,
               savesInFlight, userProgress>>

(***************************************************************************)
(* The scoring rules as functions of a selection and a correct answer:     *)
(* state.                                                                  *)
(***************************************************************************)
VARIABLES
    scoreSelected,        \* the selected labels, in the order of selection
    scoreCorrectAnswer,   \* the question's correct_answer
    scoreResults          \* function scoring code -> the isCorrect it computed

scoreVars == <<scoreSelected, scoreCorrectAnswer, scoreResults>>

(***************************************************************************)
(* One call of shuffleArray / shuffleQuestions: state.                     *)
(***************************************************************************)
VARIABLES
    shufArray,            \* the argument array, as the caller holds it
    shufShuffled,         \* the local shuffled
    shufI,                \* the loop variable i (an index from 0)
    shufPc                \* "call", "loop" or "done"

shuffleVars == <<shufArray, shufShuffled, shufI, shufPc>>

(***************************************************************************)
(* One call of calculateTimeLimit: state.                                  *)
(***************************************************************************)
VARIABLES
    tlNumQuestions,       \* the argument numQuestions
    tlRoundedSeconds      \* the value returned, -1 before the return

timeLimitVars == <<tlNumQuestions, tlRoundedSeconds>>

(***************************************************************************)
(* The server's routes/progress.js and its tables: state.                  *)
(***************************************************************************)
VARIABLES
    user_progress,        \* table: set of rows
    studyResponse,        \* the last response of POST /study, with the key it was for
    studyUpdates,         \* history: saves that met a conflict, counted up to MaxUpdates
    mock_test_results,    \* table: set of rows
    mock_test_answers,    \* table: set of rows
    mockTx,               \* the POST /mock-test request in progress: pc, body, mockTestId
    mockNextId,           \* the sequence of mock_test_results.id
    mockLog               \* history: the requests finished, each with its response

studyStoreVars == <<user_progress, studyResponse, studyUpdates>>
mockStoreVars == <<mock_test_results, mock_test_answers, mockTx, mockNextId, mockLog>>
serverVars == <<studyStoreVars, mockStoreVars>>

(***************************************************************************)
(* The navigation handlers and controls applied to any request: state.     *)
(***************************************************************************)
VARIABLES
    navMode,              \* "mock", or "paged" for StudyMode / PracticeMode
    navQuestions,         \* the length of the question list
    navIndex,             \* MockTest: currentQuestionIndex
    navPage               \* StudyMode / PracticeMode: currentPage

navVars == <<navMode, navQuestions, navIndex, navPage>>

(***************************************************************************)
(* StudyMode re-rendered with another questions prop while its progress    *)
(* is being loaded: state.                                                 *)
(***************************************************************************)
VARIABLES
    questionsProp,        \* the questions prop of the mounted StudyMode
    loads,                \* getStudyProgress promises not settled, each with the
                          \* questions its loadProgress closure holds
    loadSeq,              \* number of loadProgress calls of the mounted component
    loadApplied           \* the call whose response was set into the state last

loadVars == <<questionsProp, loads, loadSeq, loadApplied>>

(***************************************************************************)
(* RandomPractice with its QuestionCard and QuizStats: state.              *)
(***************************************************************************)
VARIABLES
    rpMounted,                \* the RandomPractice component is mounted
    rpShuffledQuestions,      \* shuffledQuestions
    rpCurrentQuestionIndex,   \* currentQuestionIndex
    rpCorrectAnswers,         \* correctAnswers
    rpAnsweredQuestions,      \* answeredQuestions (a number)
    rpCurrentAnswerProcessed, \* currentAnswerProcessed
    cardSelectedAnswers,      \* QuestionCard: selectedAnswers
    cardIsSubmitted,          \* QuestionCard: isSubmitted
    cardShowResult,           \* QuestionCard: showResult
    cardShuffledChoices,      \* QuestionCard: shuffledChoices
    rpCounted                 \* history: the answers counted since the last restart

randomVars == <<rpMounted, rpShuffledQuestions, rpCurrentQuestionIndex, rpCorrectAnswers,
                rpAnsweredQuestions, rpCurrentAnswerProcessed, cardSelectedAnswers,
                cardIsSubmitted, cardShowResult, cardShuffledChoices, rpCounted>>

\* what the actions of one component leave alone
clientVars == <<mockVars, pagedVars, scoreVars, shuffleVars, timeLimitVars, navVars,
                loadVars, randomVars>>
notMock == <<pagedVars, scoreVars, shuffleVars, timeLimitVars, navVars, loadVars,
             randomVars, serverVars>>
notPaged == <<mockVars, scoreVars, shuffleVars, timeLimitVars, navVars, loadVars,
              randomVars, serverVars>>
notScore == <<mockVars, pagedVars, shuffleVars, timeLimitVars, navVars, loadVars,
              randomVars, serverVars>>
notShuffle == <<mockVars, pagedVars, scoreVars, timeLimitVars, navVars, loadVars,
                randomVars, serverVars>>
notTimeLimit == <<mockVars, pagedVars, scoreVars, shuffleVars, navVars, loadVars,
                  randomVars, serverVars>>
notNav == <<mockVars, pagedVars, scoreVars, shuffleVars, timeLimitVars, loadVars,
            randomVars, serverVars>>
notLoad == <<mockVars, scoreVars, shuffleVars, timeLimitVars, navVars, randomVars,
             serverVars>>
notRandom == <<mockVars, pagedVars, scoreVars, shuffleVars, timeLimitVars, navVars,
               loadVars, serverVars>>

NoSave == [testId |-> "none"]
SKIPPED == "SKIPPED"

\* the four screens the component renders (the returns of the render function)
NotStarted == mounted /\ ~isTestStarted /\ ~isTestCompleted
Completed  == mounted /\ ~NotStarted /\ isTestCompleted /\ ~showResults
Reviewing  == mounted /\ ~NotStarted /\ ~Completed /\ showResults
InProgress == mounted /\ ~NotStarted /\ ~Completed /\ ~Reviewing

LastIndex == Len(testQuestions) - 1
currentQuestion == testQuestions[currentQuestionIndex + 1]

\* testAnswers[i]?.selectedAnswers || []
SelectedAt(i) == IF i \in DOMAIN testAnswers THEN testAnswers[i].selectedAnswers ELSE <<>>

(***************************************************************************)
(* MockTest: scoring and the submitted record.                             *)
(***************************************************************************)
\* a rule that accepts every selection made of correct labels
MockIsCorrectAnyLength(selected, correct_answer) ==
    LET correctAnswers == Split(correct_answer)
    IN  \A i \in 1..Len(selected) : Includes(correctAnswers, selected[i])

\* handleAnswer: selectedAnswers.length === correctAnswers.length &&
\*               selectedAnswers.every(answer => correctAnswers.includes(answer))
MockIsCorrect(selected, correct_answer) ==
    LET correctAnswers == Split(correct_answer)
    IN  /\ Len(selected) = Len(correctAnswers)
        /\ \A i \in 1..Len(selected) : Includes(correctAnswers, selected[i])

\* a count of the answers with a selection instead of the correct ones
CountAnswered(answers) ==
    Cardinality({i \in DOMAIN answers : Len(answers[i].selectedAnswers) > 0})

\* completeTest / calculateScore: testAnswers.filter(answer => answer && answer.isCorrect).length
CountCorrect(answers) == Cardinality({i \in DOMAIN answers : answers[i].isCorrect})

calculateScore == [correct |-> CountCorrect(testAnswers), total |-> Len(testQuestions)]

\* an entry that joins the selection without the sentinel
AnswerEntryNoSentinel(index, timeSpent, totalQuestions) ==
    LET has == index \in DOMAIN testAnswers
    IN  [questionId |-> testQuestions[index + 1].question_id,
         userAnswer |-> IF has THEN Join(testAnswers[index].selectedAnswers) ELSE "",
         isCorrect  |-> IF has THEN testAnswers[index].isCorrect ELSE FALSE,
         timeTaken  |-> IF has THEN timeSpent \div totalQuestions ELSE 0]

\* an entry that gives every question the even share of the time
AnswerEntryEvenTime(index, timeSpent, totalQuestions) ==
    LET has == index \in DOMAIN testAnswers
    IN  [questionId |-> testQuestions[index + 1].question_id,
         userAnswer |-> IF has /\ Len(testAnswers[index].selectedAnswers) > 0
                        THEN Join(testAnswers[index].selectedAnswers)
                        ELSE SKIPPED,
         isCorrect  |-> IF has THEN testAnswers[index].isCorrect ELSE FALSE,
         timeTaken  |-> timeSpent \div totalQuestions]

\* completeTest: one entry of answersData, for the question at index
AnswerEntry(index, timeSpent, totalQuestions) ==
    LET has == index \in DOMAIN testAnswers
    IN  [questionId |-> testQuestions[index + 1].question_id,
         userAnswer |-> IF has /\ Len(testAnswers[index].selectedAnswers) > 0
                        THEN Join(testAnswers[index].selectedAnswers)
                        ELSE SKIPPED,
         isCorrect  |-> IF has THEN testAnswers[index].isCorrect ELSE FALSE,
         timeTaken  |-> IF has THEN timeSpent \div totalQuestions ELSE 0]

\* completeTest: the argument of progressService.saveMockTestResults
SaveRequest(timeSpent) ==
    LET totalQuestions == Len(testQuestions)
    IN  [testId         |-> testId,
         score          |-> CountCorrect(testAnswers),
         totalQuestions |-> totalQuestions,
         timeSpent      |-> timeSpent,
         answers        |-> [k \in 1..totalQuestions |->
                                AnswerEntry(k - 1, timeSpent, totalQuestions)]]

(***************************************************************************)
(* MockTest: the timer effect.                                             *)
(***************************************************************************)
\* a cleanup that leaves the pending timeout armed
ClearTimeoutLeak(ts) == ts

\* the effect's cleanup: clearTimeout(timer)
ClearTimeout(ts) == {}

\* a timeout armed whenever time is left, whatever the state of the session
ArmTimerAnyState(started, left, completed) ==
    IF left > 0 THEN {sessionId} ELSE {}

\* the effect's first branch: a timeout is armed by the running session
ArmTimer(started, left, completed) ==
    IF started /\ left > 0 /\ ~completed THEN {sessionId} ELSE {}

\* an effect without the second branch
ExpiredNever(started, left, completed) == FALSE

\* the effect's second branch: the effect calls completeTest
Expired(started, left, completed) == left = 0 /\ started /\ ~completed

\* the timeouts pending after the effect ran for a render whose dependencies
\* [isTestStarted, timeLeft, isTestCompleted] changed: cleanup, then the body
TimerEffect(pending, started, left, completed) ==
    ClearTimeout(pending) \cup ArmTimer(started, left, completed)

(***************************************************************************)
(* MockTest: initializeTest.                                               *)
(***************************************************************************)
\* a filter that keeps the choices without text
ValidChoicesUnfiltered(question) == question.choices

\* the choices of a question that are kept: value.trim().length > 0
ValidChoices(question) ==
    LET kept == SelectSeq(question.choices, LAMBDA c : NonBlank(c.value))
    IN  IF kept # <<>> THEN kept ELSE <<>>

AllChoiceOrders == UNION {shuffleArray(ValidChoices(q)) : q \in {Q1, Q2, Q3}}

\* every choicesMap initializeTest can build for selectedQuestions
ChoiceMaps(selectedQuestions) ==
    {cm \in [0..(Len(selectedQuestions) - 1) -> AllChoiceOrders] :
        \A i \in DOMAIN cm : cm[i] \in shuffleArray(ValidChoices(selectedQuestions[i + 1]))}

\* shuffled.slice(0, questionCount)
Slice(seq, n) == SubSeq(seq, 1, Min(n, Len(seq)))

\* setCurrentQuestionIndex(0)
ResetCursor(cur) == 0

\* a restart that keeps the answers array
ResetAnswersKeeps(answers) == answers

\* setTestAnswers([])
ResetAnswers(answers) == <<>>

initializeTest(questions, count) ==
    \E shuffled \in shuffleArray(questions) :
      \E cm \in ChoiceMaps(Slice(shuffled, count)) :
        /\ testQuestions' = Slice(shuffled, count)
        /\ shuffledChoicesMap' = cm
        /\ currentQuestionIndex' = ResetCursor(currentQuestionIndex)
        /\ testAnswers' = ResetAnswers(testAnswers)
        /\ timeLeft' = calculateTimeLimit(count)
        /\ isTestStarted' = FALSE
        /\ isTestCompleted' = FALSE
        /\ showResults' = FALSE
        /\ mockTestActive' = FALSE
        /\ timers' = TimerEffect(timers, FALSE, calculateTimeLimit(count), FALSE)
        /\ sessionId' = sessionId + 1
        /\ ticksFired' = 0
        /\ sessionSaves' = 0
        /\ lastSaved' = NoSave

(***************************************************************************)
(* MockTest: completeTest, called with the timeouts pending and the        *)
(* timeLeft of the render that follows, the ticks fired and the drift of   *)
(* the wall clock.                                                         *)
(***************************************************************************)
\* a completeTest that does not set isTestCompleted
completeTestNoFlag(pending, left, ticks, drift) ==
    /\ isTestCompleted' = isTestCompleted
    /\ isTestStarted' = FALSE
    /\ isSavingResults' = TRUE
    /\ mockTestActive' = FALSE
    /\ lastSaved' = SaveRequest(ticks + drift)
    /\ sessionSaves' = sessionSaves + 1
    /\ pendingSaves' = pendingSaves + 1
    /\ timers' = TimerEffect(pending, FALSE, left, isTestCompleted)

\* a completeTest that leaves isTestStarted set
completeTestKeepsStarted(pending, left, ticks, drift) ==
    /\ isTestCompleted' = TRUE
    /\ isTestStarted' = isTestStarted
    /\ isSavingResults' = TRUE
    /\ mockTestActive' = FALSE
    /\ lastSaved' = SaveRequest(ticks + drift)
    /\ sessionSaves' = sessionSaves + 1
    /\ pendingSaves' = pendingSaves + 1
    /\ timers' = TimerEffect(pending, isTestStarted, left, TRUE)

completeTest(pending, left, ticks, drift) ==
    /\ isTestCompleted' = TRUE
    /\ isTestStarted' = FALSE
    /\ isSavingResults' = TRUE
    /\ mockTestActive' = FALSE
    /\ lastSaved' = SaveRequest(ticks + drift)
    /\ sessionSaves' = sessionSaves + 1
    /\ pendingSaves' = pendingSaves + 1
    /\ timers' = TimerEffect(pending, FALSE, left, TRUE)

(***************************************************************************)
(* MockTest: actions.                                                      *)
(***************************************************************************)
MockInit ==
    /\ mounted = FALSE
    /\ testId = "t1"
    /\ testQuestions = <<>>
    /\ currentQuestionIndex = 0
    /\ testAnswers = <<>>
    /\ flaggedQuestions = {}
    /\ skippedQuestions = {}
    /\ timeLeft = 0
    /\ isTestStarted = FALSE
    /\ isTestCompleted = FALSE
    /\ showResults = FALSE
    /\ questionCount = baseQuestions
    /\ shuffledChoicesMap = <<>>
    /\ isSavingResults = FALSE
    /\ mockTestActive = FALSE
    /\ timers = {}
    /\ pendingSaves = 0
    /\ sessionId = 0
    /\ ticksFired = 0
    /\ sessionSaves = 0
    /\ lastSaved = NoSave

\* the component is constructed: useState initial values, then the mount effects
\* (localStorage clean-up of the 'mockTest' keys, initializeTest)
Mount(t) ==
    /\ activeTab = "mock"
    /\ ~mounted
    /\ sessionId < MaxSessions
    /\ mounted' = TRUE
    /\ testId' = t
    /\ initializeTest(QuestionsOf(t), questionCount)
    /\ UNCHANGED <<flaggedQuestions, skippedQuestions, questionCount,
                   isSavingResults, pendingSaves>>
    /\ UNCHANGED notMock

\* the component is torn down: its state is discarded, the timer effect is cleaned
\* up, promises that settle later find no component to update
Unmount ==
    /\ mounted
    /\ mounted' = FALSE
    /\ testQuestions' = <<>>
    /\ currentQuestionIndex' = 0
    /\ testAnswers' = <<>>
    /\ flaggedQuestions' = {}
    /\ skippedQuestions' = {}
    /\ timeLeft' = 0
    /\ isTestStarted' = FALSE
    /\ isTestCompleted' = FALSE
    /\ showResults' = FALSE
    /\ questionCount' = baseQuestions
    /\ shuffledChoicesMap' = <<>>
    /\ isSavingResults' = FALSE
    /\ timers' = ClearTimeout(timers)
    /\ pendingSaves' = 0
    /\ ticksFired' = 0
    /\ sessionSaves' = 0
    /\ lastSaved' = NoSave
    /\ UNCHANGED <<testId, mockTestActive, sessionId>>
    /\ UNCHANGED notMock

\* onBlur of the question-count input, then the [questions, questionCount] effect
SetQuestionCount(blank, value) ==
    LET num == IF blank THEN 1 ELSE Min(Max(1, value), baseQuestions)
    IN  /\ NotStarted
        /\ sessionId < MaxSessions
        /\ num # questionCount
        /\ questionCount' = num
        /\ initializeTest(QuestionsOf(testId), num)
        /\ UNCHANGED <<mounted, testId, flaggedQuestions, skippedQuestions,
                       isSavingResults, pendingSaves>>
    /\ UNCHANGED notMock

startTest ==
    /\ NotStarted
    /\ IF Expired(TRUE, timeLeft, isTestCompleted)
       THEN \E drift \in 0..MaxDrift : completeTest(timers, timeLeft, ticksFired, drift)
       ELSE /\ isTestStarted' = TRUE
            /\ mockTestActive' = TRUE
            /\ timers' = TimerEffect(timers, TRUE, timeLeft, isTestCompleted)
            /\ UNCHANGED <<isTestCompleted, isSavingResults, lastSaved, sessionSaves,
                           pendingSaves>>
    /\ UNCHANGED <<mounted, testId, testQuestions, currentQuestionIndex, testAnswers,
                   flaggedQuestions, skippedQuestions, timeLeft, showResults,
                   questionCount, shuffledChoicesMap, sessionId, ticksFired>>
    /\ UNCHANGED notMock

\* a handleAnswer that leaves the skipped set as it is
handleAnswerClickKeepsSkipped(choice) ==
    LET current == SelectedAt(currentQuestionIndex)
        isMultipleAnswer == Len(Split(currentQuestion.correct_answer)) > 1
        updated == IF isMultipleAnswer
                   THEN IF Includes(current, choice)
                        THEN Without(current, choice)
                        ELSE Append(current, choice)
                   ELSE <<choice>>
        testAnswer == [questionIndex   |-> currentQuestionIndex,
                       selectedAnswers |-> updated,
                       isCorrect       |-> MockIsCorrect(updated, currentQuestion.correct_answer),
                       question        |-> currentQuestion.question_id,
                       shuffledChoices |-> shuffledChoicesMap[currentQuestionIndex]]
    IN  /\ InProgress
        /\ \E k \in 1..Len(shuffledChoicesMap[currentQuestionIndex]) :
               shuffledChoicesMap[currentQuestionIndex][k].key = choice
        /\ testAnswers' = (currentQuestionIndex :> testAnswer) @@ testAnswers
        /\ skippedQuestions' = skippedQuestions
        /\ UNCHANGED <<mounted, testId, testQuestions, currentQuestionIndex,
                       flaggedQuestions, timeLeft, isTestStarted, isTestCompleted,
                       showResults, questionCount, shuffledChoicesMap, isSavingResults,
                       mockTestActive, timers, pendingSaves, sessionId, ticksFired,
                       sessionSaves, lastSaved>>
    /\ UNCHANGED notMock

\* MockQuestionCard.handleAnswerClick, then handleAnswer
handleAnswerClick(choice) ==
    LET current == SelectedAt(currentQuestionIndex)
        isMultipleAnswer == Len(Split(currentQuestion.correct_answer)) > 1
        updated == IF isMultipleAnswer
                   THEN IF Includes(current, choice)
                        THEN Without(current, choice)
                        ELSE Append(current, choice)
                   ELSE <<choice>>
        testAnswer == [questionIndex   |-> currentQuestionIndex,
                       selectedAnswers |-> updated,
                       isCorrect       |-> MockIsCorrect(updated, currentQuestion.correct_answer),
                       question        |-> currentQuestion.question_id,
                       shuffledChoices |-> shuffledChoicesMap[currentQuestionIndex]]
    IN  /\ InProgress
        /\ \E k \in 1..Len(shuffledChoicesMap[currentQuestionIndex]) :
               shuffledChoicesMap[currentQuestionIndex][k].key = choice
        /\ testAnswers' = (currentQuestionIndex :> testAnswer) @@ testAnswers
        /\ skippedQuestions' = IF Len(updated) > 0
                               THEN skippedQuestions \ {currentQuestionIndex}
                               ELSE skippedQuestions
        /\ UNCHANGED <<mounted, testId, testQuestions, currentQuestionIndex,
                       flaggedQuestions, timeLeft, isTestStarted, isTestCompleted,
                       showResults, questionCount, shuffledChoicesMap, isSavingResults,
                       mockTestActive, timers, pendingSaves, sessionId, ticksFired,
                       sessionSaves, lastSaved>>
    /\ UNCHANGED notMock

\* a toggle that also drops the answer of the flagged question
toggleFlagDropsAnswer ==
    /\ InProgress
    /\ flaggedQuestions' = IF currentQuestionIndex \in flaggedQuestions
                           THEN flaggedQuestions \ {currentQuestionIndex}
                           ELSE flaggedQuestions \cup {currentQuestionIndex}
    /\ testAnswers' = [i \in DOMAIN testAnswers \ {currentQuestionIndex} |-> testAnswers[i]]
    /\ UNCHANGED <<mounted, testId, testQuestions, currentQuestionIndex,
                   skippedQuestions, timeLeft, isTestStarted, isTestCompleted,
                   showResults, questionCount, shuffledChoicesMap, isSavingResults,
                   mockTestActive, timers, pendingSaves, sessionId, ticksFired,
                   sessionSaves, lastSaved>>
    /\ UNCHANGED notMock

\* toggleFlag, on the Flag button of the current question
toggleFlag ==
    /\ InProgress
    /\ flaggedQuestions' = IF currentQuestionIndex \in flaggedQuestions
                           THEN flaggedQuestions \ {currentQuestionIndex}
                           ELSE flaggedQuestions \cup {currentQuestionIndex}
    /\ UNCHANGED <<mounted, testId, testQuestions, currentQuestionIndex, testAnswers,
                   skippedQuestions, timeLeft, isTestStarted, isTestCompleted,
                   showResults, questionCount, shuffledChoicesMap, isSavingResults,
                   mockTestActive, timers, pendingSaves, sessionId, ticksFired,
                   sessionSaves, lastSaved>>
    /\ UNCHANGED notMock

navUnchanged == <<mounted, testId, testQuestions, testAnswers, flaggedQuestions,
                  timeLeft, isTestStarted, isTestCompleted, showResults,
                  questionCount, shuffledChoicesMap, isSavingResults, mockTestActive,
                  timers, pendingSaves, sessionId, ticksFired, sessionSaves, lastSaved>>

\* the cursor after nextQuestion
NextIndex(cur, len) == IF cur < len - 1 THEN cur + 1 ELSE cur

\* a jump that takes the displayed question number for the index
GoToIndexOneBased(cur, len, questionIndex) ==
    IF questionIndex >= 0 /\ questionIndex < len THEN questionIndex + 1 ELSE cur

\* the cursor after goToQuestion(questionIndex)
GoToIndex(cur, len, questionIndex) ==
    IF questionIndex >= 0 /\ questionIndex < len THEN questionIndex ELSE cur

\* the cursor after previousQuestion
PreviousIndex(cur) == IF cur > 0 THEN cur - 1 ELSE cur

\* a Next that completes the test when it arrives at the last question
nextQuestionAutoComplete ==
    /\ InProgress
    /\ currentQuestionIndex # LastIndex
    /\ skippedQuestions' =
          IF currentQuestionIndex \notin DOMAIN testAnswers
             \/ Len(testAnswers[currentQuestionIndex].selectedAnswers) = 0
          THEN skippedQuestions \cup {currentQuestionIndex}
          ELSE skippedQuestions
    /\ currentQuestionIndex' = NextIndex(currentQuestionIndex, Len(testQuestions))
    /\ IF NextIndex(currentQuestionIndex, Len(testQuestions)) = LastIndex
       THEN /\ \E drift \in 0..MaxDrift :
                   completeTest(timers, timeLeft, ticksFired, drift)
            /\ UNCHANGED <<mounted, testId, testQuestions, testAnswers,
                           flaggedQuestions, timeLeft, showResults, questionCount,
                           shuffledChoicesMap, sessionId, ticksFired>>
       ELSE UNCHANGED navUnchanged
    /\ UNCHANGED notMock

\* the Next button is rendered on every question but the last
nextQuestion ==
    /\ InProgress
    /\ currentQuestionIndex # LastIndex
    /\ skippedQuestions' =
          IF currentQuestionIndex \notin DOMAIN testAnswers
             \/ Len(testAnswers[currentQuestionIndex].selectedAnswers) = 0
          THEN skippedQuestions \cup {currentQuestionIndex}
          ELSE skippedQuestions
    /\ currentQuestionIndex' = NextIndex(currentQuestionIndex, Len(testQuestions))
    /\ UNCHANGED navUnchanged
    /\ UNCHANGED notMock

\* the question dropdown offers the indexes of testQuestions
goToQuestion(questionIndex) ==
    /\ InProgress
    /\ questionIndex \in 0..LastIndex
    /\ questionIndex # currentQuestionIndex
    /\ currentQuestionIndex' = GoToIndex(currentQuestionIndex, Len(testQuestions), questionIndex)
    /\ UNCHANGED skippedQuestions
    /\ UNCHANGED navUnchanged
    /\ UNCHANGED notMock

\* a Previous that marks the question it leaves as skipped when it has no answer
previousQuestionSkipping ==
    /\ InProgress
    /\ currentQuestionIndex # 0
    /\ currentQuestionIndex' = PreviousIndex(currentQuestionIndex)
    /\ skippedQuestions' =
          IF Len(SelectedAt(currentQuestionIndex)) = 0
          THEN skippedQuestions \cup {currentQuestionIndex}
          ELSE skippedQuestions
    /\ UNCHANGED navUnchanged
    /\ UNCHANGED notMock

\* the Previous button is disabled on the first question
previousQuestion ==
    /\ InProgress
    /\ currentQuestionIndex # 0
    /\ currentQuestionIndex' = PreviousIndex(currentQuestionIndex)
    /\ UNCHANGED skippedQuestions
    /\ UNCHANGED navUnchanged
    /\ UNCHANGED notMock

\* a Submit Test button rendered on every question
SubmitTestAnywhere ==
    /\ InProgress
    /\ ~isSavingResults
    /\ \E drift \in 0..MaxDrift : completeTest(timers, timeLeft, ticksFired, drift)
    /\ UNCHANGED <<mounted, testId, testQuestions, currentQuestionIndex, testAnswers,
                   flaggedQuestions, skippedQuestions, timeLeft, showResults,
                   questionCount, shuffledChoicesMap, sessionId, ticksFired>>
    /\ UNCHANGED notMock

\* the Submit Test button: rendered on the last question, disabled while saving
SubmitTest ==
    /\ InProgress
    /\ currentQuestionIndex = LastIndex
    /\ ~isSavingResults
    /\ \E drift \in 0..MaxDrift : completeTest(timers, timeLeft, ticksFired, drift)
    /\ UNCHANGED <<mounted, testId, testQuestions, currentQuestionIndex, testAnswers,
                   flaggedQuestions, skippedQuestions, timeLeft, showResults,
                   questionCount, shuffledChoicesMap, sessionId, ticksFired>>
    /\ UNCHANGED notMock

\* the callback of a pending timeout runs: setTimeLeft(prev => prev - 1), then the
\* timer effect of the render with the new timeLeft
Tick(s) ==
    /\ s \in timers
    /\ InProgress => timeLeft <= MaxWindow
    /\ IF ~mounted
       THEN /\ timers' = timers \ {s}
            /\ UNCHANGED <<timeLeft, ticksFired, isTestStarted, isTestCompleted,
                           isSavingResults, mockTestActive, lastSaved, sessionSaves,
                           pendingSaves>>
       ELSE /\ timeLeft' = timeLeft - 1
            /\ ticksFired' = ticksFired + 1
            /\ IF Expired(isTestStarted, timeLeft - 1, isTestCompleted)
               THEN \E drift \in 0..MaxDrift :
                        completeTest(timers \ {s}, timeLeft - 1, ticksFired + 1, drift)
               ELSE /\ timers' = TimerEffect(timers \ {s}, isTestStarted, timeLeft - 1,
                                             isTestCompleted)
                    /\ UNCHANGED <<isTestStarted, isTestCompleted, isSavingResults,
                                   mockTestActive, lastSaved, sessionSaves, pendingSaves>>
    /\ UNCHANGED <<mounted, testId, testQuestions, currentQuestionIndex, testAnswers,
                   flaggedQuestions, skippedQuestions, showResults, questionCount,
                   shuffledChoicesMap, sessionId>>
    /\ UNCHANGED notMock

\* the timer fires and is armed again, second after second, while the user does
\* nothing, until MaxWindow seconds are left
TickIdle ==
    /\ InProgress
    /\ sessionId \in timers
    /\ timeLeft > MaxWindow
    /\ timeLeft' = MaxWindow
    /\ ticksFired' = ticksFired + (timeLeft - MaxWindow)
    /\ timers' = TimerEffect(timers \ {sessionId}, isTestStarted, MaxWindow,
                             isTestCompleted)
    /\ UNCHANGED <<mounted, testId, testQuestions, currentQuestionIndex, testAnswers,
                   flaggedQuestions, skippedQuestions, isTestStarted, isTestCompleted,
                   showResults, questionCount, shuffledChoicesMap, isSavingResults,
                   mockTestActive, pendingSaves, sessionId, sessionSaves, lastSaved>>
    /\ UNCHANGED notMock

\* a completion of the save that clears the indicator only when the save succeeded
SaveSettledOnSuccessOnly(ok) ==
    /\ mounted
    /\ pendingSaves > 0
    /\ pendingSaves' = pendingSaves - 1
    /\ isSavingResults' = IF ok THEN FALSE ELSE isSavingResults
    /\ UNCHANGED <<mounted, testId, testQuestions, currentQuestionIndex, testAnswers,
                   flaggedQuestions, skippedQuestions, timeLeft, isTestStarted,
                   isTestCompleted, showResults, questionCount, shuffledChoicesMap,
                   mockTestActive, timers, sessionId, ticksFired, sessionSaves,
                   lastSaved>>
    /\ UNCHANGED notMock

\* the saveMockTestResults promise settles (ok: resolved, ~ok: rejected and caught);
\* the finally block runs
SaveSettled(ok) ==
    /\ mounted
    /\ pendingSaves > 0
    /\ pendingSaves' = pendingSaves - 1
    /\ isSavingResults' = FALSE
    /\ UNCHANGED <<mounted, testId, testQuestions, currentQuestionIndex, testAnswers,
                   flaggedQuestions, skippedQuestions, timeLeft, isTestStarted,
                   isTestCompleted, showResults, questionCount, shuffledChoicesMap,
                   mockTestActive, timers, sessionId, ticksFired, sessionSaves,
                   lastSaved>>
    /\ UNCHANGED notMock

viewUnchanged == <<mounted, testId, testQuestions, currentQuestionIndex, testAnswers,
                   flaggedQuestions, skippedQuestions, timeLeft, isTestStarted,
                   isTestCompleted, questionCount, shuffledChoicesMap, isSavingResults,
                   mockTestActive, timers, pendingSaves, sessionId, ticksFired,
                   sessionSaves, lastSaved>>

showDetailedResults ==
    /\ Completed
    /\ showResults' = TRUE
    /\ UNCHANGED viewUnchanged
    /\ UNCHANGED notMock

backToSummary ==
    /\ Reviewing
    /\ showResults' = FALSE
    /\ UNCHANGED viewUnchanged
    /\ UNCHANGED notMock

\* the Take Another Test button of the results summary: onClick={initializeTest}
TakeAnotherTest ==
    /\ Completed
    /\ sessionId < MaxSessions
    /\ initializeTest(QuestionsOf(testId), questionCount)
    /\ UNCHANGED <<mounted, testId, flaggedQuestions, skippedQuestions, questionCount,
                   isSavingResults, pendingSaves>>
    /\ UNCHANGED notMock

MockNext ==
    \/ \E t \in TestIds : Mount(t)
    \/ Unmount
    \/ \E blank \in BOOLEAN, value \in 0..MaxQuestionCount : SetQuestionCount(blank, value)
    \/ startTest
    \/ \E choice \in Labels : handleAnswerClick(choice)
    \/ toggleFlag
    \/ nextQuestion
    \/ \E questionIndex \in 0..MaxQuestionCount : goToQuestion(questionIndex)
    \/ previousQuestion
    \/ SubmitTest
    \/ \E s \in timers : Tick(s)
    \/ TickIdle
    \/ \E ok \in BOOLEAN : SaveSettled(ok)
    \/ showDetailedResults
    \/ backToSummary
    \/ TakeAnotherTest

(***************************************************************************)
(* StudyMode and PracticeMode: pages and the shuffle effect.               *)
(***************************************************************************)
questionsPerPage == 10

\* Math.ceil(questions.length / questionsPerPage)
totalPages(questions) == CeilDiv(Len(questions), questionsPerPage)

\* the question indexes of currentQuestions = questions.slice(startIndex, endIndex)
PageIndexes(page, questions) ==
    {i \in 0..(Len(questions) - 1) :
        i >= (page - 1) * questionsPerPage /\ i < page * questionsPerPage}

\* an effect that shuffles every question of the page again
NeedsShuffleAlways(existing, questionIndex) == TRUE

\* the effect's test: !shuffledChoices[questionIndex]
NeedsShuffle(existing, questionIndex) == questionIndex \notin DOMAIN existing

\* every newShuffledChoices the effect can build for the indexes idxs
RECURSIVE NewShuffledChoices(_, _)
NewShuffledChoices(idxs, questions) ==
    IF idxs = {} THEN {<<>>}
    ELSE LET questionIndex == CHOOSE i \in idxs : TRUE
         IN  {(questionIndex :> order) @@ rest :
                 order \in shuffleArray(questions[questionIndex + 1].choices),
                 rest \in NewShuffledChoices(idxs \ {questionIndex}, questions)}

\* the [currentPage, questions] effect: every value of
\* {...shuffledChoices, ...newShuffledChoices} after the page is rendered
ShuffleEffect(existing, page, questions) ==
    LET idxs == {i \in PageIndexes(page, questions) : NeedsShuffle(existing, i)}
    IN  {new @@ existing : new \in NewShuffledChoices(idxs, questions)}

\* the render's test for a question card with choices:
\* Object.values(question.choices).some(choice => choice.trim().length > 0)
hasValidChoices(question) ==
    \E k \in 1..Len(question.choices) : NonBlank(question.choices[k].value)

\* the indexes of the questions rendered as a card with choices
CardIndexes == {i \in 0..(Len(PagedQuestions) - 1) : hasValidChoices(PagedQuestions[i + 1])}

\* choice rows that stay clickable after the question is answered
ChoiceRenderedAnswered(questionIndex, choice, questions) ==
    /\ questionIndex \in PageIndexes(currentPage, questions)
    /\ hasValidChoices(questions[questionIndex + 1])
    /\ questionIndex \in DOMAIN shuffledChoices
    /\ \E k \in 1..Len(shuffledChoices[questionIndex]) :
           shuffledChoices[questionIndex][k].key = choice

\* the choice rows rendered for questionIndex: clickable until it is answered
ChoiceRendered(questionIndex, choice, questions) ==
    /\ questionIndex \in PageIndexes(currentPage, questions)
    /\ hasValidChoices(questions[questionIndex + 1])
    /\ questionIndex \notin answeredQuestions
    /\ questionIndex \in DOMAIN shuffledChoices
    /\ \E k \in 1..Len(shuffledChoices[questionIndex]) :
           shuffledChoices[questionIndex][k].key = choice

\* selectedAnswers[questionIndex] || []
Selected(questionIndex) ==
    IF questionIndex \in DOMAIN selectedAnswers THEN selectedAnswers[questionIndex] ELSE <<>>

\* a Submit Answer button rendered before anything is selected
SubmitRenderedAnySelection(questionIndex, questions) ==
    /\ questionIndex \in PageIndexes(currentPage, questions)
    /\ hasValidChoices(questions[questionIndex + 1])
    /\ Len(Split(questions[questionIndex + 1].correct_answer)) > 1
    /\ questionIndex \notin answeredQuestions

\* the Submit Answer button of a card:
\* isMultipleAnswer && !isAnswered && selected.length > 0
SubmitRendered(questionIndex, questions) ==
    /\ questionIndex \in PageIndexes(currentPage, questions)
    /\ hasValidChoices(questions[questionIndex + 1])
    /\ Len(Split(questions[questionIndex + 1].correct_answer)) > 1
    /\ questionIndex \notin answeredQuestions
    /\ Len(Selected(questionIndex)) > 0

\* the selection after a click on a choice of a multiple-answer question
Toggle(current, choice) ==
    IF Includes(current, choice) THEN Without(current, choice) ELSE Append(current, choice)

\* Array.prototype.sort() of an array of distinct labels
Sort(seq) == SelectSeq(<<"A", "B", "C">>, LAMBDA l : Includes(seq, l))

(***************************************************************************)
(* StudyMode and PracticeMode: scoring.                                    *)
(***************************************************************************)
\* StudyMode.handleAnswerClick, single answer: choice === question.correct_answer
StudySingleIsCorrect(choice, correct_answer) == choice = correct_answer

\* StudyMode.handleSubmitMultiple
StudySubmitIsCorrect(selected, correct_answer) ==
    LET correctAnswers == Split(correct_answer)
    IN  /\ Len(selected) = Len(correctAnswers)
        /\ \A i \in 1..Len(selected) : Includes(correctAnswers, selected[i])

\* StudyMode.isCorrect, the result shown on an answered card
StudyIsCorrect(selected, correct_answer) ==
    LET correctAnswers == Split(correct_answer)
    IN  IF Len(selected) = 0 THEN FALSE
        ELSE IF Len(correctAnswers) > 1
             THEN /\ Len(selected) = Len(correctAnswers)
                  /\ \A i \in 1..Len(selected) : Includes(correctAnswers, selected[i])
             ELSE selected[1] = correct_answer

\* PracticeMode.isCorrect
PracticeIsCorrect(selected, correct_answer) ==
    LET correctAnswers == Split(correct_answer)
    IN  IF Len(selected) = 0 THEN FALSE
        ELSE IF Len(correctAnswers) > 1
             THEN /\ Len(selected) = Len(correctAnswers)
                  /\ \A i \in 1..Len(selected) : Includes(correctAnswers, selected[i])
             ELSE selected[1] = correct_answer

(***************************************************************************)
(* StudyMode: actions.                                                     *)
(***************************************************************************)
PagedInit ==
    /\ pagedMounted = FALSE
    /\ currentPage = 1
    /\ answeredQuestions = {}
    /\ selectedAnswers = <<>>
    /\ shuffledChoices = <<>>
    /\ progress = <<>>
    /\ isLoading = TRUE
    /\ isSaving = FALSE
    /\ error = ""
    /\ loadPending = FALSE
    /\ savesInFlight = {}
    /\ userProgress = <<>>

\* StudyMode is constructed: useState initial values, then the mount effects
\* (loadProgress is started, the choices of page 1 are shuffled)
StudyMount ==
    /\ activeTab = "study"
    /\ ~pagedMounted
    /\ pagedMounted' = TRUE
    /\ currentPage' = 1
    /\ answeredQuestions' = {}
    /\ selectedAnswers' = <<>>
    /\ progress' = <<>>
    /\ isLoading' = TRUE
    /\ isSaving' = FALSE
    /\ error' = ""
    /\ loadPending' = TRUE
    /\ shuffledChoices' \in ShuffleEffect(<<>>, 1, PagedQuestions)
    /\ UNCHANGED <<activeTab, savesInFlight, userProgress>>
    /\ UNCHANGED notPaged

\* the paginated component is torn down: its state is discarded; requests on
\* their way still reach the server, their continuations find no component
PagedUnmount ==
    /\ pagedMounted
    /\ pagedMounted' = FALSE
    /\ currentPage' = 1
    /\ answeredQuestions' = {}
    /\ selectedAnswers' = <<>>
    /\ shuffledChoices' = <<>>
    /\ progress' = <<>>
    /\ isLoading' = TRUE
    /\ isSaving' = FALSE
    /\ error' = ""
    /\ loadPending' = FALSE
    /\ savesInFlight' = {[r EXCEPT !.live = FALSE] : r \in savesInFlight}
    /\ UNCHANGED <<activeTab, userProgress>>
    /\ UNCHANGED notPaged

\* loadProgress: the item of the response for a study row of the server
ProgressItem(questionId) ==
    [questionId |-> questionId,
     userAnswer |-> userProgress[questionId].userAnswer,
     isCorrect  |-> userProgress[questionId].isCorrect]

\* loadProgress: questions.findIndex(q => q.question_id === item.questionId) of the
\* items, -1 left out
LoadedIndexes(questions) ==
    {i \in 0..(Len(questions) - 1) : questions[i + 1].question_id \in DOMAIN userProgress}

\* loadProgress: answersMap[questionIndex] = [item.userAnswer]
LoadedAnswers(questions) ==
    [i \in LoadedIndexes(questions) |-> <<userProgress[questions[i + 1].question_id].userAnswer>>]

\* a load whose failure leaves the loading state set
loadProgressNoFinally(ok) ==
    /\ pagedMounted
    /\ loadPending
    /\ loadPending' = FALSE
    /\ isLoading' = IF ok THEN FALSE ELSE isLoading
    /\ IF ok
       THEN /\ progress' = [id \in DOMAIN userProgress |-> ProgressItem(id)]
            /\ answeredQuestions' = LoadedIndexes(PagedQuestions)
            /\ selectedAnswers' = LoadedAnswers(PagedQuestions)
            /\ UNCHANGED error
       ELSE /\ error' = "Failed to load study progress. You can still continue studying."
            /\ UNCHANGED <<progress, answeredQuestions, selectedAnswers>>
    /\ UNCHANGED <<activeTab, pagedMounted, currentPage, shuffledChoices, isSaving,
                   savesInFlight, userProgress>>
    /\ UNCHANGED notPaged

\* the getStudyProgress promise settles (ok: resolved with the rows of the
\* server, ~ok: rejected and caught); the finally block runs
loadProgress(ok) ==
    /\ pagedMounted
    /\ loadPending
    /\ loadPending' = FALSE
    /\ isLoading' = FALSE
    /\ IF ok
       THEN /\ progress' = [id \in DOMAIN userProgress |-> ProgressItem(id)]
            /\ answeredQuestions' = LoadedIndexes(PagedQuestions)
            /\ selectedAnswers' = LoadedAnswers(PagedQuestions)
            /\ UNCHANGED error
       ELSE /\ error' = "Failed to load study progress. You can still continue studying."
            /\ UNCHANGED <<progress, answeredQuestions, selectedAnswers>>
    /\ UNCHANGED <<activeTab, pagedMounted, currentPage, shuffledChoices, isSaving,
                   savesInFlight, userProgress>>
    /\ UNCHANGED notPaged

\* saveProgress: the local record is set, the request leaves (of a record the
\* fields questionId, userAnswer and isCorrect are modelled)
saveProgress(questionIndex, userAnswer, correct) ==
    LET question == PagedQuestions[questionIndex + 1]
        progressData == [questionId |-> question.question_id,
                         userAnswer |-> userAnswer,
                         isCorrect  |-> correct]
    IN  /\ progress' = (question.question_id :> progressData) @@ progress
        /\ isSaving' = TRUE
        /\ savesInFlight' = savesInFlight \cup
              {[questionId |-> question.question_id, userAnswer |-> userAnswer,
                isCorrect |-> correct, live |-> TRUE]}

\* StudyMode.handleAnswerClick on a rendered choice
StudyHandleAnswerClick(questionIndex, choice) ==
    LET question == PagedQuestions[questionIndex + 1]
        isMultipleAnswer == Len(Split(question.correct_answer)) > 1
    IN  /\ activeTab = "study"
        /\ pagedMounted
        /\ ~isLoading
        /\ ChoiceRendered(questionIndex, choice, PagedQuestions)
        /\ IF isMultipleAnswer
           THEN /\ selectedAnswers' =
                      (questionIndex :> Toggle(Selected(questionIndex), choice)) @@ selectedAnswers
                /\ UNCHANGED <<answeredQuestions, progress, isSaving, savesInFlight>>
           ELSE /\ Cardinality(savesInFlight) < MaxInFlight
                /\ selectedAnswers' = (questionIndex :> <<choice>>) @@ selectedAnswers
                /\ answeredQuestions' = answeredQuestions \cup {questionIndex}
                /\ saveProgress(questionIndex, choice,
                                StudySingleIsCorrect(choice, question.correct_answer))
        /\ UNCHANGED <<activeTab, pagedMounted, currentPage, shuffledChoices, isLoading,
                       error, loadPending, userProgress>>
        /\ UNCHANGED notPaged

\* StudyMode.handleSubmitMultiple on a rendered Submit Answer button
StudyHandleSubmitMultiple(questionIndex) ==
    LET question == PagedQuestions[questionIndex + 1]
        selected == Selected(questionIndex)
    IN  /\ activeTab = "study"
        /\ pagedMounted
        /\ ~isLoading
        /\ SubmitRendered(questionIndex, PagedQuestions)
        /\ Cardinality(savesInFlight) < MaxInFlight
        /\ answeredQuestions' = answeredQuestions \cup {questionIndex}
        /\ selectedAnswers' = (questionIndex :> Sort(selected)) @@ selectedAnswers
        /\ saveProgress(questionIndex, Join(Sort(selected)),
                        StudySubmitIsCorrect(selected, question.correct_answer))
        /\ UNCHANGED <<activeTab, pagedMounted, currentPage, shuffledChoices, isLoading,
                       error, loadPending, userProgress>>
        /\ UNCHANGED notPaged

\* the server's row after POST /progress/study: inserted, or updated on conflict
Upsert(rows, request) ==
    (request.questionId :> [userAnswer |-> request.userAnswer,
                            isCorrect  |-> request.isCorrect]) @@ rows

\* a failed save that takes the progress entry back
StudySaveSettledRollsBack(request, ok) ==
    /\ request \in savesInFlight
    /\ savesInFlight' = savesInFlight \ {request}
    /\ userProgress' = IF ok THEN Upsert(userProgress, request) ELSE userProgress
    /\ isSaving' = IF request.live THEN FALSE ELSE isSaving
    /\ progress' = IF ok THEN progress
                   ELSE [q \in DOMAIN progress \ {request.questionId} |-> progress[q]]
    /\ UNCHANGED <<activeTab, pagedMounted, currentPage, answeredQuestions,
                   selectedAnswers, shuffledChoices, isLoading, error,
                   loadPending>>
    /\ UNCHANGED notPaged

\* a saveStudyProgress request is served (ok) or fails (~ok); the finally block
\* of saveProgress runs in the component that sent it
StudySaveSettled(request, ok) ==
    /\ request \in savesInFlight
    /\ savesInFlight' = savesInFlight \ {request}
    /\ userProgress' = IF ok THEN Upsert(userProgress, request) ELSE userProgress
    /\ isSaving' = IF request.live THEN FALSE ELSE isSaving
    /\ UNCHANGED <<activeTab, pagedMounted, currentPage, answeredQuestions,
                   selectedAnswers, shuffledChoices, progress, isLoading, error,
                   loadPending>>
    /\ UNCHANGED notPaged

\* StudyMode.goToPage from the pagination buttons or the page input, then the
\* [currentPage, questions] effect
StudyGoToPage(page) ==
    /\ activeTab = "study"
    /\ pagedMounted
    /\ ~isLoading
    /\ page \in 1..totalPages(PagedQuestions)
    /\ page # currentPage
    /\ currentPage' = page
    /\ shuffledChoices' \in ShuffleEffect(shuffledChoices, page, PagedQuestions)
    /\ UNCHANGED <<activeTab, pagedMounted, answeredQuestions, selectedAnswers, progress,
                   isLoading, isSaving, error, loadPending, savesInFlight, userProgress>>
    /\ UNCHANGED notPaged

(***************************************************************************)
(* PracticeMode: actions.                                                  *)
(***************************************************************************)
\* PracticeMode is constructed: useState initial values, then the shuffle effect
PracticeMount ==
    /\ activeTab = "practice"
    /\ ~pagedMounted
    /\ pagedMounted' = TRUE
    /\ currentPage' = 1
    /\ answeredQuestions' = {}
    /\ selectedAnswers' = <<>>
    /\ isLoading' = FALSE
    /\ shuffledChoices' \in ShuffleEffect(<<>>, 1, PagedQuestions)
    /\ UNCHANGED <<activeTab, progress, isSaving, error, loadPending, savesInFlight,
                   userProgress>>
    /\ UNCHANGED notPaged

practiceUnchanged == <<activeTab, pagedMounted, currentPage, shuffledChoices, progress,
                       isLoading, isSaving, error, loadPending, savesInFlight,
                       userProgress>>

\* PracticeMode.handleAnswerClick on a rendered choice
PracticeHandleAnswerClick(questionIndex, choice) ==
    LET question == PagedQuestions[questionIndex + 1]
        isMultipleAnswer == Len(Split(question.correct_answer)) > 1
    IN  /\ activeTab = "practice"
        /\ pagedMounted
        /\ ChoiceRendered(questionIndex, choice, PagedQuestions)
        /\ IF isMultipleAnswer
           THEN /\ selectedAnswers' =
                      (questionIndex :> Toggle(Selected(questionIndex), choice)) @@ selectedAnswers
                /\ UNCHANGED answeredQuestions
           ELSE /\ selectedAnswers' = (questionIndex :> <<choice>>) @@ selectedAnswers
                /\ answeredQuestions' = answeredQuestions \cup {questionIndex}
        /\ UNCHANGED practiceUnchanged
        /\ UNCHANGED notPaged

\* PracticeMode.handleSubmitMultiple on a rendered Submit Answer button
PracticeHandleSubmitMultiple(questionIndex) ==
    /\ activeTab = "practice"
    /\ pagedMounted
    /\ SubmitRendered(questionIndex, PagedQuestions)
    /\ answeredQuestions' = answeredQuestions \cup {questionIndex}
    /\ UNCHANGED selectedAnswers
    /\ UNCHANGED practiceUnchanged
    /\ UNCHANGED notPaged

\* PracticeMode.goToPage, then the [currentPage, questions] effect
PracticeGoToPage(page) ==
    /\ activeTab = "practice"
    /\ pagedMounted
    /\ page \in 1..totalPages(PagedQuestions)
    /\ page # currentPage
    /\ currentPage' = page
    /\ shuffledChoices' \in ShuffleEffect(shuffledChoices, page, PagedQuestions)
    /\ UNCHANGED <<activeTab, pagedMounted, answeredQuestions, selectedAnswers, progress,
                   isLoading, isSaving, error, loadPending, savesInFlight, userProgress>>
    /\ UNCHANGED notPaged

PagedNext ==
    \/ StudyMount
    \/ PagedUnmount
    \/ \E ok \in BOOLEAN : loadProgress(ok)
    \/ \E questionIndex \in CardIndexes, choice \in Labels :
          StudyHandleAnswerClick(questionIndex, choice)
    \/ \E questionIndex \in CardIndexes :
          StudyHandleSubmitMultiple(questionIndex)
    \/ \E request \in savesInFlight, ok \in BOOLEAN : StudySaveSettled(request, ok)
    \/ \E page \in 1..MaxPage : StudyGoToPage(page)
    \/ PracticeMount
    \/ \E questionIndex \in CardIndexes, choice \in Labels :
          PracticeHandleAnswerClick(questionIndex, choice)
    \/ \E questionIndex \in CardIndexes :
          PracticeHandleSubmitMultiple(questionIndex)
    \/ \E page \in 1..MaxPage : PracticeGoToPage(page)

(***************************************************************************)
(* StudyMode: the [testId, questions] effect when the parent renders the   *)
(* component again with another questions prop (App sets the cached        *)
(* questions of the restored test after the first render of the tab).      *)
(***************************************************************************)
QuestionLists == {<<>>, PagedQuestions}

\* the study rows a returning user can have on the server: for each of the
\* two answerable questions none, or the record of an answer saved earlier
StoredRows ==
    LET row(userAnswer, correct) == [userAnswer |-> userAnswer, isCorrect |-> correct]
        first == {<<>>} \cup
                 {"q1" :> row(c, StudySingleIsCorrect(c, Q1.correct_answer)) : c \in {"A", "B"}}
        second == {<<>>} \cup
                  {"q4" :> row(Join(sel), StudySubmitIsCorrect(sel, Q4.correct_answer)) :
                      sel \in {<<"A">>, <<"A", "B">>}}
    IN  {a @@ b : a \in first, b \in second}

LoadIdle ==
    /\ questionsProp = <<>>
    /\ loads = {}
    /\ loadSeq = 0
    /\ loadApplied = 0

\* the state before the tab is opened, with the rows of earlier sessions
LoadInit ==
    /\ LoadIdle
    /\ pagedMounted = FALSE
    /\ currentPage = 1
    /\ answeredQuestions = {}
    /\ selectedAnswers = <<>>
    /\ shuffledChoices = <<>>
    /\ progress = <<>>
    /\ isLoading = TRUE
    /\ isSaving = FALSE
    /\ error = ""
    /\ loadPending = FALSE
    /\ savesInFlight = {}
    /\ userProgress \in StoredRows

\* the effect body: loadProgress() sets isLoading and error and awaits
\* getStudyProgress; the closure keeps the questions of its render
StartLoad(seq, list) ==
    /\ isLoading' = TRUE
    /\ error' = ""
    /\ loads' = loads \cup {[seq |-> seq, questions |-> list]}
    /\ loadSeq' = seq

\* StudyMode is constructed with the questions prop list
LoadMount(list) ==
    /\ activeTab = "study"
    /\ ~pagedMounted
    /\ pagedMounted' = TRUE
    /\ questionsProp' = list
    /\ currentPage' = 1
    /\ answeredQuestions' = {}
    /\ selectedAnswers' = <<>>
    /\ progress' = <<>>
    /\ isSaving' = FALSE
    /\ loadApplied' = 0
    /\ StartLoad(1, list)
    /\ shuffledChoices' \in ShuffleEffect(<<>>, 1, list)
    /\ UNCHANGED <<activeTab, loadPending, savesInFlight, userProgress>>
    /\ UNCHANGED notLoad

\* the parent renders StudyMode with another list: the [testId, questions]
\* effect and the [currentPage, questions] effect run again
QuestionsChange(list) ==
    /\ pagedMounted
    /\ list # questionsProp
    /\ loadSeq < MaxLoads
    /\ questionsProp' = list
    /\ StartLoad(loadSeq + 1, list)
    /\ shuffledChoices' \in ShuffleEffect(shuffledChoices, currentPage, list)
    /\ UNCHANGED <<activeTab, pagedMounted, currentPage, answeredQuestions,
                   selectedAnswers, progress, isSaving, loadPending, savesInFlight,
                   userProgress, loadApplied>>
    /\ UNCHANGED notLoad

\* the getStudyProgress promise of a loadProgress call settles (ok: resolved
\* with the rows of the server, ~ok: rejected and caught); the finally block
\* runs.  Nothing tells the call whether a later call has been made.
LoadSettled(load, ok) ==
    /\ pagedMounted
    /\ load \in loads
    /\ loads' = loads \ {load}
    /\ isLoading' = FALSE
    /\ IF ok
       THEN /\ progress' = [id \in DOMAIN userProgress |-> ProgressItem(id)]
            /\ answeredQuestions' = LoadedIndexes(load.questions)
            /\ selectedAnswers' = LoadedAnswers(load.questions)
            /\ loadApplied' = load.seq
            /\ UNCHANGED error
       ELSE /\ error' = "Failed to load study progress. You can still continue studying."
            /\ UNCHANGED <<progress, answeredQuestions, selectedAnswers, loadApplied>>
    /\ UNCHANGED <<activeTab, pagedMounted, currentPage, shuffledChoices, isSaving,
                   loadPending, savesInFlight, userProgress, questionsProp, loadSeq>>
    /\ UNCHANGED notLoad

\* StudyMode is torn down: the continuations of its requests find no component
LoadUnmount ==
    /\ pagedMounted
    /\ pagedMounted' = FALSE
    /\ currentPage' = 1
    /\ answeredQuestions' = {}
    /\ selectedAnswers' = <<>>
    /\ shuffledChoices' = <<>>
    /\ progress' = <<>>
    /\ isLoading' = TRUE
    /\ isSaving' = FALSE
    /\ error' = ""
    /\ questionsProp' = <<>>
    /\ loads' = {}
    /\ loadSeq' = 0
    /\ loadApplied' = 0
    /\ UNCHANGED <<activeTab, loadPending, savesInFlight, userProgress>>
    /\ UNCHANGED notLoad

LoadNext ==
    \/ \E list \in QuestionLists : LoadMount(list)
    \/ \E list \in QuestionLists : QuestionsChange(list)
    \/ \E load \in loads, ok \in BOOLEAN : LoadSettled(load, ok)
    \/ LoadUnmount

(***************************************************************************)
(* QuestionCard (random practice): scoring.                                *)
(***************************************************************************)
\* QuestionCard.handleAnswerClick, single answer: choice === question.correct_answer
CardSingleIsCorrect(choice, correct_answer) == choice = correct_answer

\* QuestionCard.handleSubmit
CardSubmitIsCorrect(selected, correct_answer) ==
    LET correctAnswers == Split(correct_answer)
    IN  /\ Len(selected) = Len(correctAnswers)
        /\ \A i \in 1..Len(selected) : Includes(correctAnswers, selected[i])

\* QuestionCard.isCorrect
CardIsCorrect(selected, correct_answer) ==
    LET correctAnswers == Split(correct_answer)
    IN  IF Len(selected) = 0 THEN FALSE
        ELSE IF Len(correctAnswers) > 1
             THEN /\ Len(selected) = Len(correctAnswers)
                  /\ \A i \in 1..Len(selected) : Includes(correctAnswers, selected[i])
             ELSE selected[1] = correct_answer

(***************************************************************************)
(* RandomPractice: one question at a time in a QuestionCard, the counters   *)
(* shown by QuizStats.                                                      *)
(***************************************************************************)
\* the questions prop of RandomPractice
RandomQuestions == <<Q1, Q4, Q3>>

\* QuizStats: Math.round(accuracy), accuracy = currentQuestion > 0 ?
\* (correctAnswers / currentQuestion) * 100 : 0
accuracy(answered, correct) ==
    IF answered > 0
    THEN (200 * correct + answered) \div (2 * answered)
    ELSE 0

\* the question of the rendered card
rpQuestion == rpShuffledQuestions[rpCurrentQuestionIndex + 1]

\* the key of the rendered card: `random-${index}-${question_id}`
CardKey(index, list) == <<index, list[index + 1].question_id>>

RandomIdle ==
    /\ rpMounted = FALSE
    /\ rpShuffledQuestions = <<>>
    /\ rpCurrentQuestionIndex = 0
    /\ rpCorrectAnswers = 0
    /\ rpAnsweredQuestions = 0
    /\ rpCurrentAnswerProcessed = FALSE
    /\ cardSelectedAnswers = <<>>
    /\ cardIsSubmitted = FALSE
    /\ cardShowResult = FALSE
    /\ cardShuffledChoices = <<>>
    /\ rpCounted = <<>>

\* a QuestionCard is constructed for question: useState initial values, then
\* the [question.question_id] effect
CardMount(question) ==
    /\ cardSelectedAnswers' = <<>>
    /\ cardIsSubmitted' = FALSE
    /\ cardShowResult' = FALSE
    /\ cardShuffledChoices' \in shuffleArray(ValidChoices(question))

\* the card rendered after a render with index and list: a card with another
\* key is a new card, a card with the same key keeps its state
CardAfter(index, list) ==
    IF CardKey(index, list) = CardKey(rpCurrentQuestionIndex, rpShuffledQuestions)
    THEN UNCHANGED <<cardSelectedAnswers, cardIsSubmitted, cardShowResult,
                     cardShuffledChoices>>
    ELSE CardMount(list[index + 1])

\* RandomPractice is constructed: initializeQuestions, the first card
RandomMount ==
    /\ activeTab = "random"
    /\ ~rpMounted
    /\ rpMounted' = TRUE
    /\ \E shuffled \in shuffleArray(RandomQuestions) :
          /\ rpShuffledQuestions' = shuffled
          /\ CardMount(shuffled[1])
    /\ UNCHANGED <<rpCurrentQuestionIndex, rpCorrectAnswers, rpAnsweredQuestions,
                   rpCurrentAnswerProcessed, rpCounted>>
    /\ UNCHANGED notRandom

RandomUnmount ==
    /\ rpMounted
    /\ rpMounted' = FALSE
    /\ rpShuffledQuestions' = <<>>
    /\ rpCurrentQuestionIndex' = 0
    /\ rpCorrectAnswers' = 0
    /\ rpAnsweredQuestions' = 0
    /\ rpCurrentAnswerProcessed' = FALSE
    /\ cardSelectedAnswers' = <<>>
    /\ cardIsSubmitted' = FALSE
    /\ cardShowResult' = FALSE
    /\ cardShuffledChoices' = <<>>
    /\ rpCounted' = <<>>
    /\ UNCHANGED notRandom

\* processAnswer(isCorrect); userAnswer is the second argument of the card's
\* callback, kept in the history of what was counted
processAnswer(isCorrect, userAnswer) ==
    IF rpCurrentAnswerProcessed
    THEN UNCHANGED <<rpAnsweredQuestions, rpCorrectAnswers, rpCounted>>
    ELSE /\ rpAnsweredQuestions' = rpAnsweredQuestions + 1
         /\ rpCorrectAnswers' = IF isCorrect THEN rpCorrectAnswers + 1 ELSE rpCorrectAnswers
         /\ rpCounted' = Append(rpCounted, [questionId     |-> rpQuestion.question_id,
                                            correct_answer |-> rpQuestion.correct_answer,
                                            userAnswer     |-> userAnswer])

\* QuestionCard.handleAnswerClick on a choice row, then handleAnswerSubmitted
CardHandleAnswerClick(choice) ==
    /\ rpMounted
    /\ hasValidChoices(rpQuestion)
    /\ \E k \in 1..Len(cardShuffledChoices) : cardShuffledChoices[k].key = choice
    /\ IF cardIsSubmitted
       THEN UNCHANGED <<cardSelectedAnswers, cardIsSubmitted, cardShowResult,
                        rpAnsweredQuestions, rpCorrectAnswers, rpCounted,
                        rpCurrentAnswerProcessed>>
       ELSE IF Len(Split(rpQuestion.correct_answer)) > 1
            THEN /\ cardSelectedAnswers' = Toggle(cardSelectedAnswers, choice)
                 /\ UNCHANGED <<cardIsSubmitted, cardShowResult, rpAnsweredQuestions,
                                rpCorrectAnswers, rpCounted, rpCurrentAnswerProcessed>>
            ELSE /\ cardSelectedAnswers' = <<choice>>
                 /\ cardIsSubmitted' = TRUE
                 /\ cardShowResult' = TRUE
                 /\ processAnswer(CardSingleIsCorrect(choice, rpQuestion.correct_answer),
                                  choice)
                 /\ rpCurrentAnswerProcessed' = TRUE
    /\ UNCHANGED <<rpMounted, rpShuffledQuestions, rpCurrentQuestionIndex,
                   cardShuffledChoices>>
    /\ UNCHANGED notRandom

\* QuestionCard.handleSubmit on the Submit Answer button, rendered when
\* isMultipleAnswer && !isSubmitted && selectedAnswers.length > 0
CardHandleSubmit ==
    /\ rpMounted
    /\ hasValidChoices(rpQuestion)
    /\ Len(Split(rpQuestion.correct_answer)) > 1
    /\ ~cardIsSubmitted
    /\ Len(cardSelectedAnswers) > 0
    /\ cardIsSubmitted' = TRUE
    /\ cardShowResult' = TRUE
    /\ processAnswer(CardSubmitIsCorrect(cardSelectedAnswers, rpQuestion.correct_answer),
                     Join(cardSelectedAnswers))
    /\ rpCurrentAnswerProcessed' = TRUE
    /\ UNCHANGED <<rpMounted, rpShuffledQuestions, rpCurrentQuestionIndex,
                   cardSelectedAnswers, cardShuffledChoices>>
    /\ UNCHANGED notRandom

\* a Next that counts the answer whether or not it was counted before
handleNextQuestionRecounts(isCorrect, userAnswer) ==
    LET last == rpCurrentQuestionIndex >= Len(rpShuffledQuestions) - 1
        index == IF last THEN rpCurrentQuestionIndex ELSE rpCurrentQuestionIndex + 1
    IN  /\ rpAnsweredQuestions' = rpAnsweredQuestions + 1
        /\ rpCorrectAnswers' = IF isCorrect THEN rpCorrectAnswers + 1 ELSE rpCorrectAnswers
        /\ rpCounted' = Append(rpCounted, [questionId     |-> rpQuestion.question_id,
                                           correct_answer |-> rpQuestion.correct_answer,
                                           userAnswer     |-> userAnswer])
        /\ rpCurrentQuestionIndex' = index
        /\ rpCurrentAnswerProcessed' = last
        /\ CardAfter(index, rpShuffledQuestions)
        /\ UNCHANGED <<rpMounted, rpShuffledQuestions>>
        /\ UNCHANGED notRandom

\* handleNextQuestion(isCorrect), then the [currentQuestionIndex] effect and
\* the card of the next question; on the last question the alert is shown
handleNextQuestion(isCorrect, userAnswer) ==
    LET last == rpCurrentQuestionIndex >= Len(rpShuffledQuestions) - 1
        index == IF last THEN rpCurrentQuestionIndex ELSE rpCurrentQuestionIndex + 1
    IN  /\ processAnswer(isCorrect, userAnswer)
        /\ rpCurrentQuestionIndex' = index
        /\ rpCurrentAnswerProcessed' = last
        /\ CardAfter(index, rpShuffledQuestions)
        /\ UNCHANGED <<rpMounted, rpShuffledQuestions>>
        /\ UNCHANGED notRandom

\* QuestionCard.handleNext on the Next Question button, rendered with the result
CardHandleNext ==
    /\ rpMounted
    /\ hasValidChoices(rpQuestion)
    /\ cardShowResult
    /\ handleNextQuestion(CardIsCorrect(cardSelectedAnswers, rpQuestion.correct_answer),
                          Join(cardSelectedAnswers))

\* the Skip Question button of a card without valid choices: onNext(false, '', 0)
CardSkip ==
    /\ rpMounted
    /\ ~hasValidChoices(rpQuestion)
    /\ handleNextQuestion(FALSE, "")

\* handleRestart: the counters are reset, the questions are shuffled again
handleRestart ==
    /\ rpMounted
    /\ rpCurrentQuestionIndex' = 0
    /\ rpCorrectAnswers' = 0
    /\ rpAnsweredQuestions' = 0
    /\ rpCurrentAnswerProcessed' = FALSE
    /\ rpCounted' = <<>>
    /\ \E shuffled \in shuffleArray(RandomQuestions) :
          /\ rpShuffledQuestions' = shuffled
          /\ CardAfter(0, shuffled)
    /\ UNCHANGED rpMounted
    /\ UNCHANGED notRandom

RandomNext ==
    \/ RandomMount
    \/ RandomUnmount
    \/ \E choice \in Labels : CardHandleAnswerClick(choice)
    \/ CardHandleSubmit
    \/ CardHandleNext
    \/ CardSkip
    \/ handleRestart

(***************************************************************************)
(* The scoring code of the four modes applied to one selection.            *)
(***************************************************************************)
\* the selections the handlers build: labels toggled in and out, none twice
Selections == {seq \in LabelSeqs : \A i, j \in 1..Len(seq) : i # j => seq[i] # seq[j]}

\* a selection for a question with correct_answer: the click on a choice of a
\* single-answer question replaces the selection
SelectionsFor(correct_answer) ==
    {seq \in Selections : Len(Split(correct_answer)) = 1 => Len(seq) <= 1}

ScoreInit ==
    /\ scoreCorrectAnswer \in {Join(seq) : seq \in Selections \ {<<>>}}
    /\ scoreSelected \in SelectionsFor(scoreCorrectAnswer)
    /\ scoreResults = <<>>

ScoreIdle ==
    /\ scoreCorrectAnswer = "A"
    /\ scoreSelected = <<>>
    /\ scoreResults = <<>>

Scored(code, result) ==
    /\ code \notin DOMAIN scoreResults
    /\ scoreResults' = (code :> result) @@ scoreResults
    /\ UNCHANGED <<scoreSelected, scoreCorrectAnswer>>
    /\ UNCHANGED notScore

\* MockTest.handleAnswer records the answer
ScoreMock ==
    /\ Len(Split(scoreCorrectAnswer)) = 1 => Len(scoreSelected) = 1
    /\ Scored("MockTest.handleAnswer", MockIsCorrect(scoreSelected, scoreCorrectAnswer))

\* StudyMode saves the answer: on the click (single) or on Submit Answer (multiple)
ScoreStudy ==
    /\ Len(scoreSelected) > 0
    /\ Scored("StudyMode.saveProgress",
              IF Len(Split(scoreCorrectAnswer)) > 1
              THEN StudySubmitIsCorrect(scoreSelected, scoreCorrectAnswer)
              ELSE StudySingleIsCorrect(scoreSelected[1], scoreCorrectAnswer))

\* StudyMode renders the result of an answered card
ScoreStudyShown ==
    /\ Len(scoreSelected) > 0
    /\ Scored("StudyMode.isCorrect", StudyIsCorrect(scoreSelected, scoreCorrectAnswer))

\* PracticeMode renders the result of an answered card
ScorePracticeShown ==
    /\ Len(scoreSelected) > 0
    /\ Scored("PracticeMode.isCorrect", PracticeIsCorrect(scoreSelected, scoreCorrectAnswer))

\* QuestionCard reports the answer: on the click (single) or on Submit (multiple)
ScoreCard ==
    /\ Len(scoreSelected) > 0
    /\ Scored("QuestionCard.onAnswerSubmitted",
              IF Len(Split(scoreCorrectAnswer)) > 1
              THEN CardSubmitIsCorrect(scoreSelected, scoreCorrectAnswer)
              ELSE CardSingleIsCorrect(scoreSelected[1], scoreCorrectAnswer))

\* QuestionCard renders the result and passes it to onNext
ScoreCardShown ==
    /\ Len(scoreSelected) > 0
    /\ Scored("QuestionCard.isCorrect", CardIsCorrect(scoreSelected, scoreCorrectAnswer))

ScoreNext ==
    \/ ScoreMock
    \/ ScoreStudy
    \/ ScoreStudyShown
    \/ ScorePracticeShown
    \/ ScoreCard
    \/ ScoreCardShown

(***************************************************************************)
(* shuffleArray (MockTest) and testService.shuffleQuestions, statement by  *)
(* statement.  The two functions have the same body.                       *)
(***************************************************************************)
\* the elements of the arrays shuffled; an array may hold an element twice
ShuffleElements == {"a", "b", "c"}
ShuffleInputs == UNION {[1..n -> ShuffleElements] : n \in 0..MaxShuffleLen}

ShuffleInit ==
    /\ shufArray \in ShuffleInputs
    /\ shufShuffled = <<>>
    /\ shufI = 0
    /\ shufPc = "call"

ShuffleIdle ==
    /\ shufArray = <<>>
    /\ shufShuffled = <<>>
    /\ shufI = 0
    /\ shufPc = "done"

\* [...array]: a new array with the elements of array
Spread(a) == [k \in 1..Len(a) |-> a[k]]

\* the argument after an iteration that exchanged shuffled[i] and shuffled[j]:
\* shuffled is a copy, the argument is not written
ArgumentAfterSwap(a, i, j) == a

\* const shuffled = [...array]; let i = shuffled.length - 1
ShuffleCopy ==
    /\ shufPc = "call"
    /\ shufShuffled' = Spread(shufArray)
    /\ shufI' = Len(shufArray) - 1
    /\ shufPc' = "loop"
    /\ UNCHANGED shufArray
    /\ UNCHANGED notShuffle

\* one iteration: i > 0, j = Math.floor(Math.random() * (i + 1)), the exchange, i--
ShuffleIteration(j) ==
    /\ shufPc = "loop"
    /\ shufI > 0
    /\ j \in 0..shufI
    /\ shufShuffled' = Swap(shufShuffled, shufI + 1, j + 1)
    /\ shufArray' = ArgumentAfterSwap(shufArray, shufI, j)
    /\ shufI' = shufI - 1
    /\ UNCHANGED shufPc
    /\ UNCHANGED notShuffle

\* the loop condition fails: return shuffled
ShuffleReturn ==
    /\ shufPc = "loop"
    /\ ~(shufI > 0)
    /\ shufPc' = "done"
    /\ UNCHANGED <<shufArray, shufShuffled, shufI>>
    /\ UNCHANGED notShuffle

ShuffleNext ==
    \/ ShuffleCopy
    \/ \E j \in 0..(MaxShuffleLen - 1) : ShuffleIteration(j)
    \/ ShuffleReturn

(***************************************************************************)
(* calculateTimeLimit applied to a question count the input accepts.       *)
(***************************************************************************)
\* the question-count input clamps to 1..65
TimeLimitInit ==
    /\ tlNumQuestions \in 1..baseQuestions
    /\ tlRoundedSeconds = -1

TimeLimitIdle ==
    /\ tlNumQuestions = baseQuestions
    /\ tlRoundedSeconds = -1

TimeLimitReturn ==
    /\ tlRoundedSeconds = -1
    /\ tlRoundedSeconds' = calculateTimeLimit(tlNumQuestions)
    /\ UNCHANGED tlNumQuestions
    /\ UNCHANGED notTimeLimit

(***************************************************************************)
(* routes/progress.js: POST /study.                                        *)
(***************************************************************************)
(* Navigation: the handlers of MockTest and the pagination controls of     *)
(* StudyMode and PracticeMode, called with every request, on question      *)
(* lists of every length from the empty list on.                           *)
(***************************************************************************)
NavInit ==
    /\ navMode \in {"mock", "paged"}
    /\ navQuestions \in (IF navMode = "mock" THEN 1 ELSE 0)..MaxNavQuestions
    /\ navIndex = 0
    /\ navPage = 1

NavIdle ==
    /\ navMode = "mock"
    /\ navQuestions = 1
    /\ navIndex = 0
    /\ navPage = 1

\* Math.ceil(questions.length / questionsPerPage)
NavTotalPages == CeilDiv(navQuestions, questionsPerPage)

\* MockTest.nextQuestion, MockTest.previousQuestion, MockTest.goToQuestion
NavNextQuestion ==
    /\ navMode = "mock"
    /\ navIndex' = NextIndex(navIndex, navQuestions)
    /\ UNCHANGED <<navMode, navQuestions, navPage>>
    /\ UNCHANGED notNav

NavPreviousQuestion ==
    /\ navMode = "mock"
    /\ navIndex' = PreviousIndex(navIndex)
    /\ UNCHANGED <<navMode, navQuestions, navPage>>
    /\ UNCHANGED notNav

NavGoToQuestion(questionIndex) ==
    /\ navMode = "mock"
    /\ navIndex' = GoToIndex(navIndex, navQuestions, questionIndex)
    /\ UNCHANGED <<navMode, navQuestions, navPage>>
    /\ UNCHANGED notNav

\* goToPage: setCurrentPage(page)
goToPage(page) ==
    /\ navPage' = page
    /\ UNCHANGED <<navMode, navQuestions, navIndex>>
    /\ UNCHANGED notNav

\* the Previous button: disabled={currentPage === 1}
PagePrevious ==
    /\ navMode = "paged"
    /\ navPage # 1
    /\ goToPage(navPage - 1)

\* the Next button: disabled={currentPage === totalPages}
PageNext ==
    /\ navMode = "paged"
    /\ navPage # NavTotalPages
    /\ navPage < MaxNavPage
    /\ goToPage(navPage + 1)

\* getPaginationButtons: the page numbers that have a button
PageButtons(page, total) ==
    LET maxVisible == 5
        start0 == Max(1, page - (maxVisible \div 2))
        endPage == Min(total, start0 + maxVisible - 1)
        startPage == IF endPage - start0 + 1 < maxVisible
                     THEN Max(1, endPage - maxVisible + 1)
                     ELSE start0
    IN  (startPage..endPage)
        \cup (IF startPage > 1 THEN {1} ELSE {})
        \cup (IF endPage < total THEN {total} ELSE {})

PageButton(page) ==
    /\ navMode = "paged"
    /\ page \in PageButtons(navPage, NavTotalPages)
    /\ goToPage(page)

\* handlePageInputSubmit: page = parseInt(pageInput), NaN for an input that is
\* not a number; every comparison with NaN is false
handlePageInputSubmit(isNaN, page) ==
    /\ navMode = "paged"
    /\ IF ~isNaN /\ page >= 1 /\ page <= NavTotalPages
       THEN goToPage(page)
       ELSE UNCHANGED navVars /\ UNCHANGED notNav

NavNext ==
    \/ NavNextQuestion
    \/ NavPreviousQuestion
    \/ \E questionIndex \in (0 - 1)..(MaxNavQuestions + 1) : NavGoToQuestion(questionIndex)
    \/ PagePrevious
    \/ PageNext
    \/ \E page \in 1..MaxNavPage : PageButton(page)
    \/ \E isNaN \in BOOLEAN, page \in (0 - 1)..(MaxNavPage + 1) :
          handlePageInputSubmit(isNaN, page)

(***************************************************************************)
Users == {"u1", "u2"}

\* the questions table: id, test_id
questions == {[id |-> "q1", test_id |-> "t1"], [id |-> "q2", test_id |-> "t2"]}

\* the bodies of the requests: a clicked label, a padded answer, an answer that
\* fails the validation
StudyBodies ==
    {[testId |-> t, questionId |-> q, userAnswer |-> b.userAnswer,
      isCorrect |-> b.isCorrect, timeTaken |-> b.timeTaken] :
        t \in TestIds, q \in {"q1", "q2"},
        b \in {[userAnswer |-> "A", isCorrect |-> TRUE, timeTaken |-> 0],
               [userAnswer |-> " B", isCorrect |-> FALSE, timeTaken |-> 7],
               [userAnswer |-> "A", isCorrect |-> FALSE, timeTaken |-> 7],
               [userAnswer |-> "", isCorrect |-> FALSE, timeTaken |-> 0]}}

\* sanitizeInput: xss(input.trim()), on the strings of the requests
sanitizeInput(input) == IF input = " B" THEN "B" ELSE input

\* studyProgressValidation: userAnswer is a string of 1 to 10 characters,
\* isCorrect a boolean, timeTaken an integer >= 0
studyProgressValidation(body) ==
    /\ Len(body.userAnswer) >= 1 /\ Len(body.userAnswer) <= 10
    /\ body.isCorrect \in BOOLEAN
    /\ body.timeTaken \in Nat

\* the rows that conflict with row on UNIQUE(user_id, question_id, session_type)
Conflicting(rows, row) ==
    {r \in rows : /\ r.user_id = row.user_id
                  /\ r.question_id = row.question_id
                  /\ r.session_type = row.session_type}

\* an INSERT without the ON CONFLICT clause on a table without the constraint
InsertAlways(rows, row) == rows \cup {row}

\* INSERT INTO user_progress ... ON CONFLICT (user_id, question_id, session_type)
\* DO UPDATE SET user_answer, is_correct, time_taken
InsertOnConflictUpdate(rows, row) ==
    IF Conflicting(rows, row) = {}
    THEN rows \cup {row}
    ELSE (rows \ Conflicting(rows, row)) \cup
         {[r EXCEPT !.user_answer = row.user_answer,
                    !.is_correct = row.is_correct,
                    !.time_taken = row.time_taken] : r \in Conflicting(rows, row)}

NoTx == [pc |-> "idle"]

ServerInit ==
    /\ user_progress = {}
    /\ studyResponse = [status |-> 0]
    /\ studyUpdates = 0
    /\ mock_test_results = {}
    /\ mock_test_answers = {}
    /\ mockTx = NoTx
    /\ mockNextId = 1
    /\ mockLog = <<>>

\* router.post('/study') for the authenticated user userId
PostStudy(userId, body) ==
    LET row == [user_id      |-> userId,
                test_id      |-> sanitizeInput(body.testId),
                question_id  |-> sanitizeInput(body.questionId),
                user_answer  |-> sanitizeInput(body.userAnswer),
                is_correct   |-> body.isCorrect,
                time_taken   |-> body.timeTaken,
                session_type |-> "study"]
        questionCheck == {q \in questions : q.id = row.question_id /\ q.test_id = row.test_id}
        status == IF ~studyProgressValidation(body) THEN 400
                  ELSE IF questionCheck = {} THEN 404 ELSE 200
    IN  /\ studyResponse' = [status |-> status, userId |-> userId, body |-> body]
        /\ IF status = 200
           THEN /\ user_progress' = InsertOnConflictUpdate(user_progress, row)
                /\ studyUpdates' = IF Conflicting(user_progress, row) # {}
                                   THEN Min(studyUpdates + 1, MaxUpdates)
                                   ELSE studyUpdates
           ELSE UNCHANGED <<user_progress, studyUpdates>>
        /\ UNCHANGED mockStoreVars
        /\ UNCHANGED clientVars

(***************************************************************************)
(* routes/progress.js: POST /mock-test.  One step for each awaited         *)
(* statement; a statement of the transaction can fail.                     *)
(***************************************************************************)
\* answers of request bodies: for existing questions, and one for a question
\* that is not in the questions table
MockAnswer(questionId, userAnswer, correct, timeTaken) ==
    [questionId |-> questionId, userAnswer |-> userAnswer,
     isCorrect |-> correct, timeTaken |-> timeTaken]

\* the bodies of the requests: one and two answers, a second answer that
\* violates the foreign key, an unknown test, an empty answers array
MockBodies ==
    {[testId |-> "t1", score |-> 1, totalQuestions |-> 1, timeSpent |-> 5,
      answers |-> <<MockAnswer("q1", "A", TRUE, 5)>>],
     [testId |-> "t1", score |-> 1, totalQuestions |-> 2, timeSpent |-> 9,
      answers |-> <<MockAnswer("q1", "A", TRUE, 4), MockAnswer("q2", SKIPPED, FALSE, 0)>>],
     [testId |-> "t1", score |-> 0, totalQuestions |-> 2, timeSpent |-> 9,
      answers |-> <<MockAnswer("q1", " B", FALSE, 4), MockAnswer("qx", "A", FALSE, 4)>>],
     [testId |-> "tx", score |-> 1, totalQuestions |-> 1, timeSpent |-> 5,
      answers |-> <<MockAnswer("q1", "A", TRUE, 5)>>],
     [testId |-> "t1", score |-> 0, totalQuestions |-> 1, timeSpent |-> 5,
      answers |-> <<>>]}

\* mockTestValidation: score and timeSpent are integers >= 0, totalQuestions
\* is an integer >= 1, answers is a non-empty array, each userAnswer has 1 to
\* 10 characters, each isCorrect is a boolean, each timeTaken an integer >= 0
mockTestValidation(body) ==
    /\ body.score \in Nat
    /\ body.totalQuestions \in Nat /\ body.totalQuestions >= 1
    /\ body.timeSpent \in Nat
    /\ Len(body.answers) >= 1
    /\ \A k \in 1..Len(body.answers) :
          /\ Len(body.answers[k].userAnswer) >= 1 /\ Len(body.answers[k].userAnswer) <= 10
          /\ body.answers[k].isCorrect \in BOOLEAN
          /\ body.answers[k].timeTaken \in Nat

\* the request is answered: res.json / res.status(...).json
Respond(userId, body, id, status) ==
    mockLog' = Append(mockLog, [userId |-> userId, body |-> body, id |-> id, status |-> status])

\* a catch block that does not roll back
RollbackNothing(rows, id) == rows

\* ROLLBACK: the rows the transaction wrote are discarded; they carry its
\* mockTestId (as id in mock_test_results, as mock_test_result_id in
\* mock_test_answers)
Rollback(rows, id) ==
    {r \in rows : IF "id" \in DOMAIN r THEN r.id # id ELSE r.mock_test_result_id # id}

\* validation, the test check, db.connect() and BEGIN
PostMockTest(userId, body) ==
    /\ mockTx.pc = "idle"
    /\ Len(mockLog) < MaxMockSaves
    /\ IF ~mockTestValidation(body)
       THEN Respond(userId, body, 0, 400) /\ UNCHANGED mockTx
       ELSE IF sanitizeInput(body.testId) \notin TestIds
            THEN Respond(userId, body, 0, 404) /\ UNCHANGED mockTx
            ELSE /\ mockTx' = [pc |-> "begun", userId |-> userId, body |-> body,
                               mockTestId |-> 0, next |-> 1]
                 /\ UNCHANGED mockLog
    /\ UNCHANGED <<mock_test_results, mock_test_answers, mockNextId>>
    /\ UNCHANGED studyStoreVars
    /\ UNCHANGED clientVars

\* INSERT INTO mock_test_results ... RETURNING id
InsertResult(ok) ==
    /\ mockTx.pc = "begun"
    /\ IF ok
       THEN /\ mock_test_results' = mock_test_results \cup
                   {[id              |-> mockNextId,
                     user_id         |-> mockTx.userId,
                     test_id         |-> sanitizeInput(mockTx.body.testId),
                     score           |-> mockTx.body.score,
                     total_questions |-> mockTx.body.totalQuestions,
                     time_spent      |-> mockTx.body.timeSpent]}
            /\ mockTx' = [mockTx EXCEPT !.pc = "answers", !.mockTestId = mockNextId]
            /\ mockNextId' = mockNextId + 1
       ELSE /\ mockTx' = [mockTx EXCEPT !.pc = "catch"]
            /\ UNCHANGED <<mock_test_results, mockNextId>>
    /\ UNCHANGED <<mock_test_answers, mockLog>>
    /\ UNCHANGED studyStoreVars
    /\ UNCHANGED clientVars

\* one iteration of for (const answer of answers): INSERT INTO mock_test_answers;
\* the statement fails when question_id references no question, or for a
\* reason of the database (~ok)
InsertAnswer(ok) ==
    LET answer == mockTx.body.answers[mockTx.next]
        references == \E q \in questions : q.id = sanitizeInput(answer.questionId)
    IN  /\ mockTx.pc = "answers"
        /\ mockTx.next <= Len(mockTx.body.answers)
        /\ IF ok /\ references
           THEN /\ mock_test_answers' = mock_test_answers \cup
                       {[mock_test_result_id |-> mockTx.mockTestId,
                         n                   |-> mockTx.next,
                         question_id         |-> sanitizeInput(answer.questionId),
                         user_answer         |-> sanitizeInput(answer.userAnswer),
                         is_correct          |-> answer.isCorrect,
                         time_taken          |-> answer.timeTaken]}
                /\ mockTx' = [mockTx EXCEPT !.next = mockTx.next + 1]
           ELSE /\ mockTx' = [mockTx EXCEPT !.pc = "catch"]
                /\ UNCHANGED mock_test_answers
        /\ UNCHANGED <<mock_test_results, mockNextId, mockLog>>
        /\ UNCHANGED studyStoreVars
        /\ UNCHANGED clientVars

\* COMMIT after the last answer, then res.json
Commit(ok) ==
    /\ mockTx.pc = "answers"
    /\ mockTx.next > Len(mockTx.body.answers)
    /\ IF ok
       THEN /\ Respond(mockTx.userId, mockTx.body, mockTx.mockTestId, 200)
            /\ mockTx' = NoTx
       ELSE /\ mockTx' = [mockTx EXCEPT !.pc = "catch"]
            /\ UNCHANGED mockLog
    /\ UNCHANGED <<mock_test_results, mock_test_answers, mockNextId>>
    /\ UNCHANGED studyStoreVars
    /\ UNCHANGED clientVars

\* catch: ROLLBACK, throw; finally: client.release(); the outer catch answers 500
CatchRollback ==
    /\ mockTx.pc = "catch"
    /\ mock_test_results' = Rollback(mock_test_results, mockTx.mockTestId)
    /\ mock_test_answers' = Rollback(mock_test_answers, mockTx.mockTestId)
    /\ Respond(mockTx.userId, mockTx.body, mockTx.mockTestId, 500)
    /\ mockTx' = NoTx
    /\ UNCHANGED mockNextId
    /\ UNCHANGED studyStoreVars
    /\ UNCHANGED clientVars

MockStoreNext ==
    \/ \E userId \in Users, body \in MockBodies : PostMockTest(userId, body)
    \/ \E ok \in BOOLEAN : InsertResult(ok)
    \/ \E ok \in BOOLEAN : InsertAnswer(ok)
    \/ \E ok \in BOOLEAN : Commit(ok)
    \/ CatchRollback

(***************************************************************************)
(* Specifications.                                                         *)
(***************************************************************************)
vars == <<clientVars, serverVars>>

\* the mock tab
Init == activeTab = "mock" /\ MockInit /\ PagedInit /\ ScoreIdle /\ ShuffleIdle /\ TimeLimitIdle /\ NavIdle /\ LoadIdle /\ RandomIdle /\ ServerInit
Next == MockNext
Spec == Init /\ [][Next]_vars

\* the study tab or the practice tab
InitStudy == activeTab \in {"study", "practice"} /\ MockInit /\ PagedInit /\ ScoreIdle /\ ShuffleIdle /\ TimeLimitIdle /\ NavIdle /\ LoadIdle /\ RandomIdle /\ ServerInit
NextStudy == PagedNext
SpecStudy == InitStudy /\ [][NextStudy]_vars

\* any of the three tabs
InitTabs == activeTab \in {"mock", "study", "practice"} /\ MockInit /\ PagedInit /\ ScoreIdle /\ ShuffleIdle /\ TimeLimitIdle /\ NavIdle /\ LoadIdle /\ RandomIdle /\ ServerInit
NextTabs == MockNext \/ PagedNext
SpecTabs == InitTabs /\ [][NextTabs]_vars

\* the mock tab with requests that settle: the API client gives every request
\* a timeout, so the promise of a save is resolved or rejected in the end
Fairness == WF_vars(\E ok \in BOOLEAN : SaveSettled(ok))
SpecFair == Init /\ [][Next]_vars /\ Fairness

\* the paginated tabs with a load that settles: the API client gives every
\* request a timeout, so the promise of getStudyProgress is resolved or rejected
\* in the end
LoadFairness == WF_vars(\E ok \in BOOLEAN : loadProgress(ok))
SpecStudyFair == InitStudy /\ [][NextStudy]_vars /\ LoadFairness

\* the scoring code on every selection
InitScore == activeTab = "random" /\ MockInit /\ PagedInit /\ ScoreInit /\ ShuffleIdle /\ TimeLimitIdle /\ NavIdle /\ LoadIdle /\ RandomIdle /\ ServerInit
NextScore == ScoreNext
SpecScore == InitScore /\ [][NextScore]_vars

\* one call of the shuffle on an array of at most MaxShuffleLen elements
InitShuffle == activeTab = "mock" /\ MockInit /\ PagedInit /\ ScoreIdle /\ ShuffleInit /\ TimeLimitIdle /\ NavIdle /\ LoadIdle /\ RandomIdle /\ ServerInit
NextShuffle == ShuffleNext
SpecShuffle == InitShuffle /\ [][NextShuffle]_vars

\* one call of calculateTimeLimit
InitTimeLimit ==
    /\ activeTab = "mock" /\ MockInit /\ PagedInit /\ ScoreIdle /\ ShuffleIdle
    /\ TimeLimitInit /\ NavIdle /\ LoadIdle /\ RandomIdle /\ ServerInit
NextTimeLimit == TimeLimitReturn
SpecTimeLimit == InitTimeLimit /\ [][NextTimeLimit]_vars

\* the navigation handlers and controls under every request
InitNav ==
    /\ activeTab = "mock" /\ MockInit /\ PagedInit /\ ScoreIdle /\ ShuffleIdle
    /\ TimeLimitIdle /\ NavInit /\ LoadIdle /\ RandomIdle /\ ServerInit
NextNav == NavNext
SpecNav == InitNav /\ [][NextNav]_vars

\* StudyMode under changes of its questions prop, for a returning user
InitLoad ==
    /\ activeTab = "study" /\ MockInit /\ LoadInit /\ ScoreIdle /\ ShuffleIdle
    /\ TimeLimitIdle /\ NavIdle /\ RandomIdle /\ ServerInit
NextLoad == LoadNext
SpecLoad == InitLoad /\ [][NextLoad]_vars

\* the random practice tab
InitRandom ==
    /\ activeTab = "random" /\ MockInit /\ PagedInit /\ ScoreIdle /\ ShuffleIdle
    /\ TimeLimitIdle /\ NavIdle /\ LoadIdle /\ RandomIdle /\ ServerInit
NextRandom == RandomNext
SpecRandom == InitRandom /\ [][NextRandom]_vars

\* the mock tab with room for three attempts below MaxSessions: the count of
\* initializeTest runs starts one lower than in Init
InitAttempts ==
    /\ activeTab = "mock"
    /\ mounted = FALSE
    /\ testId = "t1"
    /\ testQuestions = <<>>
    /\ currentQuestionIndex = 0
    /\ testAnswers = <<>>
    /\ flaggedQuestions = {}
    /\ skippedQuestions = {}
    /\ timeLeft = 0
    /\ isTestStarted = FALSE
    /\ isTestCompleted = FALSE
    /\ showResults = FALSE
    /\ questionCount = baseQuestions
    /\ shuffledChoicesMap = <<>>
    /\ isSavingResults = FALSE
    /\ mockTestActive = FALSE
    /\ timers = {}
    /\ pendingSaves = 0
    /\ sessionId = -1
    /\ ticksFired = 0
    /\ sessionSaves = 0
    /\ lastSaved = NoSave
    /\ PagedInit /\ ScoreIdle /\ ShuffleIdle /\ TimeLimitIdle /\ NavIdle /\ LoadIdle
    /\ RandomIdle /\ ServerInit
NextAttempts == MockNext
SpecAttempts == InitAttempts /\ [][NextAttempts]_vars

\* the server under study saves of two users
ClientIdle ==
    activeTab = "mock" /\ MockInit /\ PagedInit /\ ScoreIdle /\ ShuffleIdle /\ TimeLimitIdle
    /\ NavIdle /\ LoadIdle /\ RandomIdle
InitStudyStore == ClientIdle /\ ServerInit
NextStudyStore == \E userId \in Users, body \in StudyBodies : PostStudy(userId, body)
SpecStudyStore == InitStudyStore /\ [][NextStudyStore]_vars

\* the server under mock-test saves, one request at a time
InitMockStore == ClientIdle /\ ServerInit
NextMockStore == MockStoreNext
SpecMockStore == InitMockStore /\ [][NextMockStore]_vars

(***************************************************************************)
(* Properties.                                                             *)
(***************************************************************************)
\* the indexes of the session's questions
Indexes == 0..LastIndex

\* C1: timer-forced completion.  Once the timer callbacks of a started session
\* have used up its whole budget (timeLeft is 0), wherever the cursor is, the
\* session is completed, its result has been submitted, and the submitted
\* answers carry "SKIPPED" for every question without a selected answer.
TimerForcedCompletion ==
    (mounted /\ timeLeft = 0) =>
        /\ isTestCompleted /\ ~isTestStarted
        /\ ticksFired = calculateTimeLimit(questionCount)
        /\ lastSaved # NoSave
        /\ \A i \in Indexes :
              Len(SelectedAt(i)) = 0 => lastSaved.answers[i + 1].userAnswer = SKIPPED

\* the timer ran out on a session whose cursor never left the first of two
\* questions, one answered and one not
TimerForcedWitness ==
    /\ Completed /\ timeLeft = 0
    /\ Len(testQuestions) = 2 /\ currentQuestionIndex = 0
    /\ skippedQuestions = {}
    /\ lastSaved.answers[1].userAnswer # SKIPPED
    /\ lastSaved.answers[2].userAnswer = SKIPPED

\* C2: the result of a session instance is submitted exactly once, at the step
\* from InProgress to Completed: no call before completion, one call after it,
\* and a step that makes a call starts InProgress and ends Completed.
SubmittedExactlyOnce ==
    /\ [](mounted => sessionSaves = IF isTestCompleted THEN 1 ELSE 0)
    /\ [](mounted => (NotStarted \/ InProgress) = ~isTestCompleted)
    /\ [][sessionSaves' # sessionSaves /\ sessionSaves' # 0
             => InProgress /\ Completed' /\ sessionSaves' = sessionSaves + 1]_vars

\* the explicit Submit was taken one second before the timer would have expired
SubmittedOnceWitness ==
    /\ Completed /\ timeLeft = 1 /\ sessionSaves = 1 /\ timers = {}

\* C3: the submitted answers array has one entry per session question, in
\* subset order; a question without selected labels is submitted as "SKIPPED"
\* and not correct, any other as the concatenation of its selected labels.
SubmissionCoversSubset ==
    lastSaved # NoSave =>
        /\ Len(lastSaved.answers) = Len(testQuestions)
        /\ lastSaved.totalQuestions = Len(testQuestions)
        /\ \A i \in Indexes :
              /\ lastSaved.answers[i + 1].questionId = testQuestions[i + 1].question_id
              /\ Len(SelectedAt(i)) = 0 =>
                    /\ lastSaved.answers[i + 1].userAnswer = SKIPPED
                    /\ ~lastSaved.answers[i + 1].isCorrect
              /\ Len(SelectedAt(i)) > 0 =>
                    lastSaved.answers[i + 1].userAnswer = Join(SelectedAt(i))

\* a submission with an answered question, and a multiple-answer question whose
\* selections were all toggled off again
SubmissionWitness ==
    /\ lastSaved # NoSave /\ Len(testQuestions) = 2
    /\ \E i, j \in Indexes :
          /\ lastSaved.answers[i + 1].userAnswer = "A"
          /\ j \in DOMAIN testAnswers /\ testAnswers[j].selectedAnswers = <<>>
          /\ lastSaved.answers[j + 1].userAnswer = SKIPPED

\* C4: the submitted score is the number of session questions whose recorded
\* selection matches the correct answer, and it is the score of the results view.
ScoreIsCorrectCount ==
    lastSaved # NoSave =>
        /\ lastSaved.score =
              Cardinality({i \in Indexes : i \in DOMAIN testAnswers /\ testAnswers[i].isCorrect})
        /\ lastSaved.score =
              Cardinality({i \in Indexes :
                  /\ Len(SelectedAt(i)) > 0
                  /\ MockIsCorrect(SelectedAt(i), testQuestions[i + 1].correct_answer)})
        /\ lastSaved.score = calculateScore.correct
        /\ calculateScore.total = lastSaved.totalQuestions

\* a completed session with one correct and one wrong answer, a flag set and a
\* question passed over, looked at in the review
ScoreWitness ==
    /\ Reviewing /\ lastSaved.score = 1
    /\ \E i \in DOMAIN testAnswers :
          Len(testAnswers[i].selectedAnswers) > 0 /\ ~testAnswers[i].isCorrect
    /\ flaggedQuestions # {}

\* the scoring rule: the selected labels and the labels of the correct answer
\* have the same size and the same members
ExactMatch(selected, correct_answer) ==
    LET correctAnswers == Split(correct_answer)
    IN  /\ Len(selected) = Len(correctAnswers)
        /\ {selected[i] : i \in 1..Len(selected)} =
              {correctAnswers[i] : i \in 1..Len(correctAnswers)}

\* C5: a question is scored correct exactly when the set of selected labels
\* equals the set of labels of the correct answer, whatever the order of
\* selection, and the scoring code of mock, study, practice and random mode
\* all compute this one rule.
ScoringIsExactMatch ==
    \A code \in DOMAIN scoreResults :
        scoreResults[code] = ExactMatch(scoreSelected, scoreCorrectAnswer)

\* every scoring code has scored correct a two-label answer selected in the
\* reverse order of the correct answer
ScoringWitness ==
    /\ scoreCorrectAnswer = "AB" /\ scoreSelected = <<"B", "A">>
    /\ Cardinality(DOMAIN scoreResults) = 6
    /\ \A code \in DOMAIN scoreResults : scoreResults[code]

\* C6: in every reachable state the isCorrect held for a question equals the
\* scoring rule applied to the labels currently selected for it: the isCorrect
\* of each mock answer, and the isCorrect of the study record of each answered
\* question, also after the study progress was loaded again.
StoredIsCorrectAgrees ==
    /\ \A i \in DOMAIN testAnswers :
          testAnswers[i].isCorrect =
              ExactMatch(testAnswers[i].selectedAnswers, testQuestions[i + 1].correct_answer)
    /\ \A i \in answeredQuestions :
          LET question == PagedQuestions[i + 1]
          IN  question.question_id \in DOMAIN progress =>
                 progress[question.question_id].isCorrect =
                     ExactMatch(Selected(i), question.correct_answer)

\* C7: within a session instance the shuffled ordering of a question, once
\* drawn, never changes: in the mock test every session question has one from
\* initializeTest on, in study and practice mode every question of a page has
\* one from the first display of the page on, and no step of the same instance
\* (answers, navigation away and back, saves, loads) replaces an ordering.
OrderingStable ==
    /\ [](mounted => DOMAIN shuffledChoicesMap = Indexes)
    /\ [](pagedMounted =>
             PageIndexes(currentPage, PagedQuestions) \subseteq DOMAIN shuffledChoices)
    /\ [][/\ mounted /\ mounted' /\ sessionId' = sessionId
                => shuffledChoicesMap' = shuffledChoicesMap
          /\ pagedMounted /\ pagedMounted'
                => \A i \in DOMAIN shuffledChoices :
                      /\ i \in DOMAIN shuffledChoices'
                      /\ shuffledChoices'[i] = shuffledChoices[i]]_vars

\* a paginated component back on page 1 after a visit of page 2, showing the
\* choices of its first question in the order B, A, with an answered question
OrderingWitness ==
    /\ pagedMounted /\ currentPage = 1
    /\ 10 \in DOMAIN shuffledChoices
    /\ shuffledChoices[0][1].key = "B"
    /\ answeredQuestions # {}

TimeLeftOnlyTicks ==
    /\ [](mounted => timeLeft >= 0
                     /\ timeLeft + ticksFired = calculateTimeLimit(questionCount))
    /\ [][mounted /\ mounted' /\ sessionId' = sessionId
             => /\ timeLeft' <= timeLeft
                /\ timeLeft - timeLeft' = ticksFired' - ticksFired
                /\ timeLeft' # timeLeft => InProgress]_vars

\* a session completed by Submit with one second left: the time stays frozen
TimeLeftWitness ==
    /\ mounted /\ isTestCompleted /\ timeLeft = 1
    /\ ticksFired = calculateTimeLimit(questionCount) - 1
    /\ pendingSaves = 0

\* C10: a timeout is pending only for the running session instance and only
\* while it is InProgress: every exit from InProgress cancels it.
TimerCancelledOnExit ==
    /\ timers \subseteq {sessionId}
    /\ timers # {} => InProgress

\* the component was torn down in the middle of a started session, and a
\* session was restarted after an explicit Submit with time left
TimerCancelledWitness ==
    \/ ~mounted /\ mockTestActive /\ timers = {}
    \/ NotStarted /\ sessionId = 2 /\ timers = {} /\ isSavingResults

\* C11: within a running session the skipped set changes only in two ways.
\* Next on a question without a selected answer adds that question; Previous
\* and a jump move the cursor and leave the set as it is, also when the
\* question they leave has no answer.  An answer click that leaves a non-empty
\* selection removes the question from the set.
SkippedOnlyByNext ==
    [][(InProgress /\ InProgress' /\ sessionId' = sessionId) =>
         LET cur == currentQuestionIndex
             unanswered == Len(SelectedAt(cur)) = 0
         IN  /\ (nextQuestion /\ unanswered) => skippedQuestions' = skippedQuestions \cup {cur}
             /\ (nextQuestion /\ ~unanswered) => skippedQuestions' = skippedQuestions
             /\ currentQuestionIndex' < cur => skippedQuestions' = skippedQuestions
             /\ (currentQuestionIndex' > cur /\ skippedQuestions' # skippedQuestions) =>
                    /\ currentQuestionIndex' = cur + 1
                    /\ unanswered
                    /\ skippedQuestions' = skippedQuestions \cup {cur}
             /\ (currentQuestionIndex' = cur /\ testAnswers' # testAnswers) =>
                    skippedQuestions' = IF Len(testAnswers'[cur].selectedAnswers) > 0
                                        THEN skippedQuestions \ {cur}
                                        ELSE skippedQuestions
    ]_vars

\* the first question was skipped with Next, then the second was left without
\* an answer by Previous or a jump and is not in the set
SkippedOnlyByNextWitness ==
    /\ InProgress /\ currentQuestionIndex = 0
    /\ skippedQuestions = {0} /\ testAnswers = <<>>

\* C11 as stated: every cursor move away from a question without a recorded
\* answer (Next, Previous or a jump) puts that question into the skipped set.
EveryCursorMoveSkips ==
    [][(InProgress /\ InProgress' /\ sessionId' = sessionId
        /\ currentQuestionIndex' # currentQuestionIndex
        /\ Len(SelectedAt(currentQuestionIndex)) = 0)
       => currentQuestionIndex \in skippedQuestions']_vars

CompletionOnlyBySubmitOrExpiry ==
    [][/\ (InProgress /\ Completed') =>
            /\ SubmitTest \/ (timeLeft = 1 /\ timeLeft' = 0)
            /\ currentQuestionIndex' = currentQuestionIndex
       /\ (InProgress /\ mounted' /\ currentQuestionIndex' # currentQuestionIndex) =>
            /\ InProgress'
            /\ sessionSaves' = sessionSaves
    ]_vars

\* the cursor stands on the last question of a running session in which every
\* question has a selected answer, and the session is not completed
CompletionOnlyWitness ==
    /\ InProgress /\ Len(testQuestions) = 2 /\ currentQuestionIndex = LastIndex
    /\ \A i \in Indexes : Len(SelectedAt(i)) > 0
    /\ sessionSaves = 0 /\ timeLeft > 0

\* C14: the step from Completed to NotStarted (Take Another Test) sets the
\* cursor to 0, timeLeft to the time budget of questionCount, the questions to
\* the first questionCount of a new shuffle of the bank with a new ordering of
\* the choices of each, and the answers to the empty array.  Before the new
\* attempt is started it has no answer, a score of 0 and no submission, and
\* what it submits later is built from the answers it holds itself.
RestartIsFresh ==
    /\ [][(Completed /\ NotStarted') =>
            /\ currentQuestionIndex' = 0
            /\ timeLeft' = calculateTimeLimit(questionCount)
            /\ testAnswers' = <<>>
            /\ \E shuffled \in shuffleArray(QuestionsOf(testId)) :
                   testQuestions' = Slice(shuffled, questionCount)
            /\ shuffledChoicesMap' \in ChoiceMaps(testQuestions')
            /\ sessionId' = sessionId + 1
            /\ lastSaved' = NoSave
            /\ timers' = {}]_vars
    /\ [](NotStarted =>
            /\ testAnswers = <<>>
            /\ calculateScore.correct = 0
            /\ sessionSaves = 0 /\ lastSaved = NoSave)
    /\ []((mounted /\ lastSaved # NoSave) =>
            /\ lastSaved.score = calculateScore.correct
            /\ \A i \in Indexes :
                  /\ i \notin DOMAIN testAnswers =>
                        /\ lastSaved.answers[i + 1].userAnswer = SKIPPED
                        /\ ~lastSaved.answers[i + 1].isCorrect
                  /\ i \in DOMAIN testAnswers =>
                        /\ testAnswers[i].question = testQuestions[i + 1].question_id
                        /\ lastSaved.answers[i + 1].isCorrect = testAnswers[i].isCorrect)

\* the second attempt, not started yet, while the save of the completed first
\* attempt, in which a question was skipped, is still in flight
RestartIsFreshWitness ==
    /\ NotStarted /\ sessionId = 2 /\ isSavingResults /\ pendingSaves = 1
    /\ skippedQuestions = {0} /\ currentQuestionIndex = 0
    /\ timeLeft = calculateTimeLimit(baseQuestions)

\* the number of positions of seq that hold x
Occurrences(seq, x) == Cardinality({k \in 1..Len(seq) : seq[k] = x})

\* same length and the same elements the same number of times
IsPermutation(s, t) ==
    /\ Len(s) = Len(t)
    /\ \A x \in ShuffleElements : Occurrences(s, x) = Occurrences(t, x)

\* C15: from the copy on, shuffled is a permutation of the argument after
\* every iteration, for every value j in 0..i drawn in it; the loop runs i from
\* the last index down to 1; the array returned is a new value among the
\* results of shuffleArray; and no step of the call changes the argument.
ShuffleIsPermutation ==
    /\ [](shufPc # "call" =>
            /\ IsPermutation(shufShuffled, shufArray)
            /\ shufI \in -1..(Len(shufArray) - 1)
            /\ \A k \in (shufI + 2)..Len(shufArray) :
                  shufShuffled[k] \in {shufArray[n] : n \in 1..Len(shufArray)})
    /\ [](shufPc = "done" =>
            /\ shufI <= 0
            /\ shufShuffled \in shuffleArray(shufArray)
            /\ \A result \in shuffleArray(shufArray) : IsPermutation(result, shufArray))
    /\ [][shufArray' = shufArray]_vars
    /\ [][(shufPc = "loop" /\ shufShuffled' # shufShuffled) =>
            /\ shufI \in 1..(Len(shufArray) - 1)
            /\ shufI' = shufI - 1
            /\ \E j \in 0..shufI : shufShuffled' = Swap(shufShuffled, shufI + 1, j + 1)]_vars

\* the call returned, for an array that holds an element twice, an order
\* other than the argument's
ShuffleWitness ==
    /\ shufPc = "done"
    /\ shufArray = <<"a", "b", "a", "c">>
    /\ shufShuffled = <<"c", "a", "a", "b">>

\* C16: for n in 1..65 the time budget r is ceil(ceil(7200 n / 65) / 15) * 15:
\* with t the least integer with 65 t >= 7200 n, r is the least multiple of 15
\* that is at least t.  So r is a multiple of 15, is at least 7200 n / 65 and
\* exceeds it by less than 16 seconds; r = 7200 for n = 65, r = 1110 for n = 10.
TimeBudgetRounding ==
    tlRoundedSeconds # -1 =>
        LET n == tlNumQuestions
            r == tlRoundedSeconds
        IN  /\ n \in 1..65
            /\ \E t \in 0..7200 :
                  /\ 65 * t >= 120 * 60 * n /\ 65 * (t - 1) < 120 * 60 * n
                  /\ r >= t /\ r - 15 < t
            /\ r % 15 = 0
            /\ 65 * r >= 7200 * n
            /\ 65 * r - 7200 * n < 16 * 65
            /\ n = 65 => r = 7200
            /\ n = 10 => r = 1110

\* the budget of 10 questions was computed
TimeBudgetWitness == tlNumQuestions = 10 /\ tlRoundedSeconds = 1110

\* the local session state: everything but the saving indicator and the
\* bookkeeping of requests in flight
sessionState == <<testQuestions, currentQuestionIndex, testAnswers, flaggedQuestions,
                  skippedQuestions, timeLeft, isTestStarted, isTestCompleted,
                  showResults, shuffledChoicesMap, calculateScore>>

StudySaveProtocol ==
    /\ [](\A request \in savesInFlight :
            request.live =>
                /\ pagedMounted
                /\ request.questionId \in DOMAIN progress
                /\ progress[request.questionId].userAnswer = request.userAnswer
                /\ progress[request.questionId].isCorrect = request.isCorrect
                /\ \E i \in answeredQuestions :
                      PagedQuestions[i + 1].question_id = request.questionId)
    /\ [][(activeTab = "study" /\ pagedMounted /\ pagedMounted' /\ ~isLoading
           /\ answeredQuestions' # answeredQuestions) =>
             \E request \in savesInFlight' \ savesInFlight :
                /\ request.live /\ isSaving'
                /\ request.questionId \in DOMAIN progress'
                /\ progress'[request.questionId].userAnswer = request.userAnswer
                /\ \E i \in answeredQuestions' \ answeredQuestions :
                      PagedQuestions[i + 1].question_id = request.questionId]_vars
    /\ [][(savesInFlight' \subseteq savesInFlight /\ savesInFlight' # savesInFlight
           /\ pagedMounted' = pagedMounted) =>
             /\ UNCHANGED <<answeredQuestions, selectedAnswers, progress, error,
                            currentPage, shuffledChoices, isLoading>>
             /\ isSaving' = isSaving \/ ~isSaving']_vars

\* the save of the answer to the first question failed: the server holds no
\* row for it, the component holds the answer, its entry and no error
StudySaveFailedWitness ==
    /\ activeTab = "study" /\ pagedMounted /\ ~isLoading /\ ~isSaving
    /\ savesInFlight = {} /\ userProgress = <<>>
    /\ answeredQuestions = {0} /\ DOMAIN progress = {"q1"}
    /\ Selected(0) = <<progress["q1"].userAnswer>>
    /\ error = ""

\* the key of a row of user_progress
KeyOf(row) == <<row.user_id, row.question_id>>

\* C19: the study save is an upsert on (user, questionId).  In every state the
\* table holds at most one study row for a key, and after a save that was
\* answered with 200 it holds exactly one row for the key of the save, with the
\* userAnswer (as cleaned by sanitizeInput), isCorrect and timeTaken of that
\* save; a step leaves the study rows of every other key as they were, and a
\* save that is refused (400, 404) leaves the table as it was.
StudySaveIsUpsert ==
    /\ [](\A r1, r2 \in user_progress : KeyOf(r1) = KeyOf(r2) => r1 = r2)
    /\ [](studyResponse.status = 200 =>
            \E r \in user_progress :
                /\ KeyOf(r) = <<studyResponse.userId, studyResponse.body.questionId>>
                /\ r.user_answer = sanitizeInput(studyResponse.body.userAnswer)
                /\ r.is_correct = studyResponse.body.isCorrect
                /\ r.time_taken = studyResponse.body.timeTaken
                /\ r.session_type = "study")
    /\ [][/\ \A r \in user_progress :
               KeyOf(r) # <<studyResponse'.userId, studyResponse'.body.questionId>>
                   => r \in user_progress'
          /\ \A r \in user_progress' :
               KeyOf(r) # <<studyResponse'.userId, studyResponse'.body.questionId>>
                   => r \in user_progress
          /\ studyResponse'.status # 200 => user_progress' = user_progress]_vars

\* a second save of u1 for q1 replaced the answer of the first while the row of
\* u2 for q1 and the row of u1 for q2 are in the table
StudySaveIsUpsertWitness ==
    /\ studyUpdates = 1
    /\ studyResponse.status = 200 /\ studyResponse.userId = "u1"
    /\ studyResponse.body.questionId = "q1" /\ studyResponse.body.userAnswer = " B"
    /\ {KeyOf(r) : r \in user_progress} = {<<"u1", "q1">>, <<"u2", "q1">>, <<"u1", "q2">>}
    /\ Cardinality(user_progress) = 3
    /\ \E r \in user_progress : KeyOf(r) = <<"u1", "q1">> /\ r.user_answer = "B" /\ r.time_taken = 7

\* the rows of the two tables that carry the id of a request
ResultRows(id) == {r \in mock_test_results : r.id = id}
AnswerRows(id) == {r \in mock_test_answers : r.mock_test_result_id = id}

\* C20: a mock result is stored as a unit.  For every request that has
\* finished: answered 200, the tables hold its session row and exactly one
\* answer row for each entry of its answers array, with the values of the
\* entry; answered otherwise, the tables hold no row of it.  Every row in the
\* tables belongs to a request answered 200 or to the transaction in progress.
MockSaveIsAtomic ==
    /\ \A k \in 1..Len(mockLog) :
          LET done == mockLog[k]
          IN  IF done.status = 200
              THEN /\ \E r \in mock_test_results :
                         /\ ResultRows(done.id) = {r}
                         /\ r.user_id = done.userId
                         /\ r.score = done.body.score
                         /\ r.total_questions = done.body.totalQuestions
                         /\ r.time_spent = done.body.timeSpent
                   /\ Cardinality(AnswerRows(done.id)) = Len(done.body.answers)
                   /\ \A n \in 1..Len(done.body.answers) :
                         \E r \in AnswerRows(done.id) :
                            /\ r.n = n
                            /\ r.question_id = done.body.answers[n].questionId
                            /\ r.user_answer = sanitizeInput(done.body.answers[n].userAnswer)
                            /\ r.is_correct = done.body.answers[n].isCorrect
                            /\ r.time_taken = done.body.answers[n].timeTaken
              ELSE done.id # 0 => (ResultRows(done.id) = {} /\ AnswerRows(done.id) = {})
    /\ LET stored == {mockLog[k].id : k \in {j \in 1..Len(mockLog) : mockLog[j].status = 200}}
           open == IF mockTx.pc = "idle" THEN {} ELSE {mockTx.mockTestId}
       IN  /\ \A r \in mock_test_results : r.id \in stored \cup open
           /\ \A r \in mock_test_answers : r.mock_test_result_id \in stored \cup open

\* a request of two answers was stored, then a request failed on its second
\* answer after its session row and its first answer had been inserted
MockSaveIsAtomicWitness ==
    /\ mockTx.pc = "idle" /\ Len(mockLog) = 2
    /\ mockLog[1].status = 200 /\ Len(mockLog[1].body.answers) = 2
    /\ mockLog[2].status = 500 /\ mockLog[2].id = 2
    /\ Len(mockLog[2].body.answers) = 2
    /\ mockLog[2].body.answers[2].questionId = "qx"
    /\ Cardinality(mock_test_results) = 1 /\ Cardinality(mock_test_answers) = 2

\* the question at index i of a list has one correct label
SingleAnswer(question) == Len(Split(question.correct_answer)) = 1

NavigationInRange ==
    [][/\ (NavNextQuestion /\ navIndex = navQuestions - 1) => navIndex' = navIndex
       /\ (NavPreviousQuestion /\ navIndex = 0) => navIndex' = navIndex
       /\ \A questionIndex \in (0 - 1)..(MaxNavQuestions + 1) :
             (NavGoToQuestion(questionIndex)
              /\ questionIndex \notin 0..(navQuestions - 1)) => navIndex' = navIndex
       /\ navMode = "mock" => navIndex' \in 0..(navQuestions - 1)
       /\ (navMode = "paged" /\ navPage' # navPage) => navPage' \in 1..NavTotalPages
    ]_vars

\* C23: the response of a superseded loadProgress call is never applied to the
\* state of the current one: once the response of the latest call of the
\* mounted component has been set into the state, the progress map, the
\* answered set and the selected answers stay as that response left them
\* until the questions change again, whatever older response arrives late.
StaleLoadNotApplied ==
    [][(pagedMounted /\ pagedMounted' /\ loadApplied = loadSeq /\ loadSeq' = loadSeq)
       => UNCHANGED <<progress, answeredQuestions, selectedAnswers>>]_vars

\* C24: the step in which the progress of a constructed study session is
\* loaded pre-populates the session from the persisted records: every record
\* whose question is in the question list has its question in the answered
\* set (so that its choices are no longer clickable), and the correctness the
\* component derives for the question (isCorrect, counted by getStudyStats)
\* equals the isCorrect of the record, whatever the number of correct labels.
LoadPrepopulates ==
    [][(pagedMounted /\ loadPending /\ ~loadPending' /\ pagedMounted' /\ error' = "") =>
          \A i \in 0..(Len(PagedQuestions) - 1) :
              LET question == PagedQuestions[i + 1]
              IN  question.question_id \in DOMAIN userProgress =>
                     /\ i \in answeredQuestions'
                     /\ i \in DOMAIN selectedAnswers'
                     /\ StudyIsCorrect(selectedAnswers'[i], question.correct_answer)
                           = userProgress[question.question_id].isCorrect
    ]_vars

\* no choice of the question has text
NoChoiceText(question) ==
    \A k \in 1..Len(question.choices) : question.choices[k].value \in {"", " "}

\* C25: a mock question without a choice that has text is never answerable:
\* it has no choice row to click, no answer click is enabled while the cursor
\* is on it, it never has an entry in testAnswers, and a submission carries it
\* as SKIPPED and not correct, with a score that counts only the other
\* questions.
EmptyChoicesNeverAnswered ==
    mounted =>
        /\ \A i \in Indexes :
              NoChoiceText(testQuestions[i + 1]) =>
                 /\ shuffledChoicesMap[i] = <<>>
                 /\ i \notin DOMAIN testAnswers
                 /\ lastSaved # NoSave =>
                       /\ ~lastSaved.answers[i + 1].isCorrect
                       /\ lastSaved.answers[i + 1].userAnswer = SKIPPED
        /\ (InProgress /\ NoChoiceText(currentQuestion)) =>
              \A choice \in Labels : ~ENABLED handleAnswerClick(choice)
        /\ lastSaved # NoSave =>
              lastSaved.score =
                 Cardinality({i \in Indexes :
                     /\ ~NoChoiceText(testQuestions[i + 1])
                     /\ i \in DOMAIN testAnswers
                     /\ testAnswers[i].isCorrect})

\* a session of an image-only question and a question answered correctly was
\* submitted from the image-only question: one of two is scored
EmptyChoicesWitness ==
    /\ Completed /\ Len(testQuestions) = 2
    /\ currentQuestionIndex = LastIndex
    /\ NoChoiceText(currentQuestion)
    /\ lastSaved.score = 1
    /\ lastSaved.answers[LastIndex + 1].userAnswer = SKIPPED
\* the answers counted since the last restart that were scored correct
CountedCorrect ==
    {k \in 1..Len(rpCounted) :
        ExactMatch(Split(rpCounted[k].userAnswer), rpCounted[k].correct_answer)}

\* C26: in random practice the counters are never stale: answeredQuestions is
\* the number of questions processed since the last restart, each question
\* counted once (it is the index of the current question, plus one when the
\* current question is processed), correctAnswers is the number of those
\* scored correct, correctAnswers <= answeredQuestions <= total questions, and
\* the accuracy shown is correctAnswers / answeredQuestions as a rounded
\* percentage, 0 when nothing is answered.
SessionCountersExact ==
    rpMounted =>
        /\ rpAnsweredQuestions = Len(rpCounted)
        /\ \A j, k \in 1..Len(rpCounted) :
              j # k => rpCounted[j].questionId # rpCounted[k].questionId
        /\ rpAnsweredQuestions
              = rpCurrentQuestionIndex + (IF rpCurrentAnswerProcessed THEN 1 ELSE 0)
        /\ rpCorrectAnswers = Cardinality(CountedCorrect)
        /\ rpCorrectAnswers <= rpAnsweredQuestions
        /\ rpAnsweredQuestions <= Len(rpShuffledQuestions)
        /\ LET shown == accuracy(rpAnsweredQuestions, rpCorrectAnswers)
               excess == shown * rpAnsweredQuestions - 100 * rpCorrectAnswers
           IN  IF rpAnsweredQuestions = 0
               THEN shown = 0
               ELSE 2 * excess <= rpAnsweredQuestions /\ -2 * excess <= rpAnsweredQuestions

\* every question of the run is counted, some correct and some not, and Next
\* was pressed again on the last question
SessionCountersWitness ==
    /\ rpMounted
    /\ rpCurrentAnswerProcessed
    /\ rpCurrentQuestionIndex = Len(rpShuffledQuestions) - 1
    /\ rpAnsweredQuestions = 3
    /\ rpCorrectAnswers = 2
    /\ cardShowResult


\* C27: in every reachable state the 'mockTestActive' marker is present if and
\* only if a mock session is in progress, also after completion, restart and
\* teardown of the component.
MarkerIffInProgress ==
    mockTestActive <=> (mounted /\ isTestStarted /\ ~isTestCompleted)

\* the flagged set with the flag of the question at index flipped
FlagFlip(flagged, index) ==
    (flagged \ {index}) \cup ({index} \ flagged)

\* C28: a flag toggle on a mock question changes only the flagged set: the
\* answers with their isCorrect values, the skipped set, the cursor, timeLeft
\* and the score a submission would report are unchanged, and the same toggle
\* applied again restores the flagged set.
FlagToggleFrame ==
    [][(InProgress /\ InProgress' /\ flaggedQuestions' # flaggedQuestions) =>
          /\ flaggedQuestions' = FlagFlip(flaggedQuestions, currentQuestionIndex)
          /\ FlagFlip(flaggedQuestions', currentQuestionIndex') = flaggedQuestions
          /\ UNCHANGED <<testAnswers, skippedQuestions, currentQuestionIndex, timeLeft,
                         testQuestions, isTestStarted, isTestCompleted>>
          /\ calculateScore' = calculateScore
          /\ \A timeSpent \in 0..1 : SaveRequest(timeSpent)' = SaveRequest(timeSpent)]_vars

\* the current question is flagged, it has an answer, another was skipped
FlagToggleWitness ==
    /\ InProgress
    /\ currentQuestionIndex \in flaggedQuestions
    /\ currentQuestionIndex \in DOMAIN testAnswers
    /\ skippedQuestions # {}

\* the even share of the elapsed time in the latest submission
EvenShare == lastSaved.timeSpent \div lastSaved.totalQuestions

\* C29: in a mock submission the record of a question that has an answer entry
\* carries floor(timeSpent / totalQuestions) as timeTaken, the record of a
\* question without an answer entry carries 0.
TimeTakenEvenForAnswered ==
    lastSaved # NoSave =>
        \A i \in 0..(Len(testQuestions) - 1) :
            lastSaved.answers[i + 1].timeTaken
                = IF i \in DOMAIN testAnswers THEN EvenShare ELSE 0

\* a submission with a positive even share, one question answered, one not
TimeTakenWitness ==
    /\ lastSaved # NoSave
    /\ EvenShare > 0
    /\ \E i, j \in 0..(Len(testQuestions) - 1) :
          /\ i \in DOMAIN testAnswers
          /\ j \notin DOMAIN testAnswers
          /\ lastSaved.answers[i + 1].timeTaken = EvenShare
          /\ lastSaved.answers[j + 1].timeTaken = 0

\* C29 as stated: every record of a mock submission carries
\* floor(timeSpent / totalQuestions) as timeTaken, for each question of the
\* session.
TimeTakenEvenForAll ==
    lastSaved # NoSave =>
        \A i \in 0..(Len(testQuestions) - 1) :
            lastSaved.answers[i + 1].timeTaken = EvenShare

\* C30: the explicit submit of a mock session is available only while the
\* cursor is on the last question: from a state in which the session is in
\* progress and the cursor is not on the last index, no step is the Submit
\* Test button, and a step that completes the session is the one in which
\* timeLeft reaches 0.
SubmitOnlyOnLastQuestion ==
    [][(InProgress /\ currentQuestionIndex # LastIndex) =>
          /\ ~SubmitTest
          /\ Completed' => /\ timeLeft = 1 /\ timeLeft' = 0
                           /\ ticksFired' = ticksFired + 1
                           /\ currentQuestionIndex' = currentQuestionIndex]_vars

\* a session that was completed by the timer with the cursor before the last
\* question
SubmitOnlyOnLastWitness ==
    /\ Completed
    /\ Len(testQuestions) > 1
    /\ currentQuestionIndex # LastIndex
    /\ timeLeft = 0
    /\ lastSaved # NoSave

\* C31: after a restart of a mock session the skipped set and the flagged set
\* are both empty: the new attempt starts with no index carried over from the
\* prior attempt.
RestartClearsMarks ==
    [][(Completed /\ NotStarted') =>
          flaggedQuestions' = {} /\ skippedQuestions' = {}]_vars

\* getCurrentProgress: the questions with a non-empty recorded answer
AnsweredIndexes == {i \in DOMAIN testAnswers : Len(testAnswers[i].selectedAnswers) > 0}

\* C32: in every reachable state of a mock session the skipped set and the set
\* of questions with a non-empty recorded answer are disjoint, every index of
\* the skipped and flagged sets is one of the session's questions, and the
\* answered count plus the skipped count is at most the question count.
MarksWithinSession ==
    mounted =>
        /\ skippedQuestions \cap AnsweredIndexes = {}
        /\ skippedQuestions \subseteq 0..(Len(testQuestions) - 1)
        /\ flaggedQuestions \subseteq 0..(Len(testQuestions) - 1)
        /\ Cardinality(AnsweredIndexes) + Cardinality(skippedQuestions)
              <= Len(testQuestions)

\* the four phases of a mock session, by the flags alone
PhaseFlags ==
    <<~isTestStarted /\ ~isTestCompleted /\ ~showResults,
      isTestStarted /\ ~isTestCompleted /\ ~showResults,
      ~isTestStarted /\ isTestCompleted /\ ~showResults,
      ~isTestStarted /\ isTestCompleted /\ showResults>>

\* C33: a mounted mock session is in exactly one of NotStarted, InProgress,
\* Completed and Reviewing: isTestStarted and isTestCompleted are never both
\* true, showResults is true only when isTestCompleted is, and within one
\* attempt the answers are recorded or changed only by a step taken while the
\* session is in progress.
ExactlyOnePhase ==
    /\ [](mounted =>
            /\ ~(isTestStarted /\ isTestCompleted)
            /\ showResults => isTestCompleted
            /\ Cardinality({k \in 1..4 : PhaseFlags[k]}) = 1
            /\ NotStarted <=> PhaseFlags[1]
            /\ InProgress <=> PhaseFlags[2]
            /\ Completed <=> PhaseFlags[3]
            /\ Reviewing <=> PhaseFlags[4])
    /\ [][(mounted /\ mounted' /\ sessionId' = sessionId /\ testAnswers' # testAnswers) =>
            /\ isTestStarted /\ ~isTestCompleted /\ ~showResults
            /\ isTestStarted' /\ ~isTestCompleted' /\ ~showResults']_vars

\* the detailed results of a completed session with a recorded answer are shown
ExactlyOnePhaseWitness ==
    /\ Reviewing
    /\ showResults /\ isTestCompleted /\ ~isTestStarted
    /\ DOMAIN testAnswers # {}
    /\ timers = {}

\* the detailed results: the indicator of the question at index
ResultIndicator(index) ==
    IF index \in DOMAIN testAnswers
    THEN IF testAnswers[index].isCorrect THEN "correct" ELSE "incorrect"
    ELSE "skipped"

\* C34: the review of a completed mock session classifies every question as
\* the submitted record does: a question is shown as skipped if and only if
\* its submitted userAnswer is "SKIPPED", also a multiple-answer question whose
\* selections were all toggled off again.
ReviewMatchesRecord ==
    (Reviewing /\ lastSaved # NoSave) =>
        \A i \in 0..(Len(testQuestions) - 1) :
            ResultIndicator(i) = "skipped"
                <=> lastSaved.answers[i + 1].userAnswer = SKIPPED

\* saveProgress: the body of the request of a study save, sent timeTaken
\* seconds after the question was shown
StudyRequestBody(request, timeTaken) ==
    [testId |-> PagedTestId, questionId |-> request.questionId,
     userAnswer |-> request.userAnswer, isCorrect |-> request.isCorrect,
     timeTaken |-> timeTaken]

SavingIndicatorTracksSaves ==
    pagedMounted => (isSaving <=> \E request \in savesInFlight : request.live)

\* C37: the time budget of a mock session is computed from the number of
\* questions in the session: before the start timeLeft is the budget of the
\* session's question count, also when the bank holds fewer questions than
\* questionCount, and the session holds min(questionCount, questions of the
\* bank) questions, none of them twice.
BudgetOfSessionQuestions ==
    NotStarted =>
        /\ timeLeft = calculateTimeLimit(Len(testQuestions))
        /\ Len(testQuestions) = Min(questionCount, Len(QuestionsOf(testId)))
        /\ \A j, k \in 1..Len(testQuestions) :
              j # k => testQuestions[j].question_id # testQuestions[k].question_id

\* C38: every load of the study progress ends the loading state: whether the
\* load succeeds or fails, isLoading becomes false in the end (unless the
\* component is torn down first).  The step in which a load fails sets the
\* error banner and leaves the answered set, the selected answers and the
\* progress as they were; after it the choices of an unanswered question can
\* still be clicked, which sends a save.
LoadEndsLoading ==
    /\ (pagedMounted /\ isLoading) ~> (~isLoading \/ ~pagedMounted)
    /\ [][(pagedMounted /\ pagedMounted' /\ loadPending /\ ~loadPending') =>
            /\ ~isLoading'
            /\ \/ /\ error' # ""
                  /\ UNCHANGED <<answeredQuestions, selectedAnswers, progress>>
               \/ /\ error' = ""
                  /\ answeredQuestions' = LoadedIndexes(PagedQuestions)]_vars
    /\ [](( /\ activeTab = "study" /\ pagedMounted /\ error # ""
            /\ currentPage = 1 /\ 0 \notin answeredQuestions
            /\ Cardinality(savesInFlight) < MaxInFlight) =>
              /\ ~isLoading
              /\ \A choice \in {"A", "B"} : ENABLED StudyHandleAnswerClick(0, choice))

\* the load failed, then the first question was answered and its save reached
\* the server
LoadEndsLoadingWitness ==
    /\ activeTab = "study" /\ pagedMounted /\ ~isLoading
    /\ error # ""
    /\ answeredQuestions = {0}
    /\ "q1" \in DOMAIN userProgress
    /\ savesInFlight = {}

====
